---- MODULE Spec2Model ----
(***************************************************************************)
(* Model of the triage decision engine of triage-ai.                       *)
(*                                                                         *)
(*  - apps/api: ConversationEngine (processMessage, handleEmergencyTriage, *)
(*    performTriage) over the ConversationStore.  An async call takes one  *)
(*    step from each await to the next; the store operations mutate the    *)
(*    shared Conversation object of the Map before they are awaited.       *)
(*  - packages/triage-engine: ATSTriageEngine.assess with the guardrails   *)
(*    (keyword detection, clinical rules, safety envelope), and            *)
(*    TriageEngine.assess with its keyword safety net.                     *)
(*  - api/conversation: the serverless message handler.                    *)
(*                                                                         *)
(* Texts are sequences of words; String.includes and the regular           *)
(* expressions of the source are modelled at word granularity.             *)
(***************************************************************************)
EXTENDS Integers, Sequences, FiniteSets, TLC

\* ------------------------------------------------------------------ bounds
\* message requests are sent while fewer than this many user messages are
\* stored, over all conversations
MaxTurns == 2
\* the same for the clients of SpecLaterCalls
MaxLaterTurns == 3
\* the same for the client that sends one message at a time
MaxSerialTurns == 3
\* number of processMessage calls that may be in progress at once
MaxInFlight == 2
\* number of conversation ids
MaxConvs == 1
\* number of conversation ids of the clients that use two conversations
MaxIsolatedConvs == 2
\* requests made to the rate limiter
MaxRequests == 12
\* steps of the clock of the rate limiter
MaxClockSteps == 3

\* ------------------------------------------------------------ text model
\* String.prototype.toLowerCase on one word
ToLowerWord(w) ==
  CASE w = "CHEST" -> "chest"
    [] w = "PAIN" -> "pain"
    [] OTHER -> w

toLowerCase(text) == [i \in 1..Len(text) |-> ToLowerWord(text[i])]

\* keyword kw starts at word i of text
OccursAt(text, kw, i) ==
  /\ i >= 1
  /\ i + Len(kw) - 1 <= Len(text)
  /\ SubSeq(text, i, i + Len(kw) - 1) = kw

\* String.prototype.includes
Includes(text, kw) == \E i \in 1..Len(text) : OccursAt(text, kw, i)

\* one alternative of a regular expression: <<a>> is the literal a,
\* <<a, b>> is /a.*b/
MatchesAlt(text, alt) ==
  IF Len(alt) = 1
    THEN Includes(text, alt[1])
    ELSE \E i \in 1..Len(text) : \E j \in 1..Len(text) :
           /\ OccursAt(text, alt[1], i)
           /\ OccursAt(text, alt[2], j)
           /\ j >= i + Len(alt[1])

\* RegExp.prototype.test for a pattern given as its set of alternatives
RegexTest(pattern, text) == \E alt \in pattern : MatchesAlt(text, alt)

\* user texts of the model
TextHeadache == <<"i", "have", "a", "mild", "headache">>
TextCrushing == <<"crushing", "feeling">>
TextChest ==
  <<"i", "have", "crushing", "chest", "pain", "radiating", "to", "my", "left", "arm">>
TextArrest == <<"no", "pulse", "not", "breathing">>
TextUrinate == <<"i", "can't", "urinate">>

UserTexts == {TextHeadache, TextCrushing, TextChest, TextArrest, TextUrinate}

\* ------------------------------------------------ ConversationEngine data
\* rows of keywordPatterns, in table order: the rows whose words occur in
\* the texts of the model (the alternatives with more than one .* or with a
\* digit class are left out)
keywordPatterns == <<
  [pattern |-> {<<<<"chest", "pain">>>>, <<<<"chest", "tightness">>>>,
                <<<<"chest", "pressure">>>>, <<<<"crushing">>, <<"chest">>>>,
                <<<<"radiating">>, <<"arm">>>>, <<<<"pressure">>, <<"chest">>>>},
   flag |-> "Chest pain"],
  [pattern |-> {<<<<"no", "pulse">>>>, <<<<"has", "no", "pulse">>>>,
                <<<<"not", "beating">>>>, <<<<"heart", "stopped">>>>},
   flag |-> "Cardiac arrest"],
  [pattern |-> {<<<<"can't", "breathe">>>>, <<<<"cannot", "breathe">>>>,
                <<<<"hard", "to", "breathe">>>>,
                <<<<"shortness", "of", "breath">>>>, <<<<"gasping">>>>,
                <<<<"difficulty", "breathing">>>>, <<<<"struggling", "to", "breathe">>>>},
   flag |-> "Difficulty breathing"],
  [pattern |-> {<<<<"not", "breathing">>>>, <<<<"stopped", "breathing">>>>,
                <<<<"barely", "breathing">>>>, <<<<"lips">>, <<"blue">>>>,
                <<<<"turning", "blue">>>>, <<<<"cyanosis">>>>},
   flag |-> "Respiratory arrest"],
  [pattern |-> {<<<<"worst", "headache">>>>, <<<<"thunderclap", "headache">>>>,
                <<<<"sudden", "severe", "headache">>>>,
                <<<<"never", "had", "headache", "this", "bad">>>>},
   flag |-> "Sudden severe headache"],
  [pattern |-> {<<<<"can't">>, <<"urinate">>>>, <<<<"urinary">>, <<"retention">>>>},
   flag |-> "Urinary retention"],
  [pattern |-> {<<<<"asthma">>, <<"attack">>>>, <<<<"asthma">>, <<"worse">>>>,
                <<<<"wheezing">>>>, <<<<"using">>, <<"inhaler">>>>,
                <<<<"nebulizer">>>>, <<<<"puffer">>>>},
   flag |-> "Asthma exacerbation"],
  [pattern |-> {<<<<"high", "fever">>>>, <<<<"fever">>, <<"39">>>>,
                <<<<"fever">>, <<"40">>>>, <<<<"temperature">>, <<"39">>>>,
                <<<<"temperature">>, <<"40">>>>, <<<<"burning", "up">>>>},
   flag |-> "High fever"],
  [pattern |-> {<<<<"haven't">>, <<"pee">>>>, <<<<"can't">>, <<"pee">>>>,
                <<<<"haven't">>, <<"urinate">>>>, <<<<"can't">>, <<"urinate">>>>},
   flag |-> "Urinary retention"]
>>

\* flagActions[f]?.ats ; 0 stands for a flag without an entry
flagActionsAts(f) ==
  CASE f = "Cardiac arrest" -> 1
    [] f = "Respiratory arrest" -> 1
    [] f = "Chest pain" -> 2
    [] f = "Difficulty breathing" -> 2
    [] f = "Sudden severe headache" -> 2
    [] f = "Asthma exacerbation" -> 3
    [] f = "High fever" -> 3
    [] f = "Urinary retention" -> 3
    [] OTHER -> 0

\* the atsCategory values of ATS_GUIDELINES
ATS_GUIDELINES == 1..5

\* keywords and atsCategory of CLINICAL_CONDITIONS
CLINICAL_CONDITIONS ==
  {[keywords |-> {<<"chest", "pain">>, <<"crushing">>, <<"radiating">>},
    atsCategory |-> 2]}


\* ------------------------------------------------------ helper operators
\* an optional value is the empty sequence (undefined) or a 1-element one
Undefined == <<>>

Some(x) == <<x>>

\* Math.min over a non-empty set of numbers
MathMin(S) == CHOOSE x \in S : \A y \in S : x <= y

\* Array.prototype.filter(...).length for the user messages
CountUser(messages) ==
  Cardinality({i \in 1..Len(messages) : messages[i].role = "user"})

\* ------------------------------------------- ConversationEngine functions
RECURSIVE CollectFlags(_, _)
CollectFlags(lowerText, k) ==
  IF k > Len(keywordPatterns) THEN <<>>
  ELSE (IF RegexTest(keywordPatterns[k].pattern, lowerText)
          THEN <<keywordPatterns[k].flag>> ELSE <<>>)
       \o CollectFlags(lowerText, k + 1)

\* checkRedFlagKeywords(text): the flags of the rows that match, in order
checkRedFlagKeywords(text) == CollectFlags(toLowerCase(text), 1)

\* worstATS = Math.min(...redFlags.map(f => flagActions[f]?.ats || 2))
worstATSOf(redFlags) ==
  MathMin({(IF flagActionsAts(redFlags[i]) = 0 THEN 2
            ELSE flagActionsAts(redFlags[i])) : i \in 1..Len(redFlags)})

\* atsToUrgency[ats]
atsToUrgency(ats) ==
  CASE ats = 1 -> "EMERGENCY"
    [] ats = 2 -> "EMERGENCY"
    [] ats = 3 -> "URGENT"
    [] ats = 4 -> "SEMI_URGENT"
    [] ats = 5 -> "NON_URGENT"
    [] OTHER -> "undefined"

\* retrieveRelevantConditions(text)
retrieveRelevantConditions(text) ==
  {c \in CLINICAL_CONDITIONS :
     \E kw \in c.keywords : Includes(toLowerCase(text), kw)}

\* getMinimumATSFromSymptoms(text)
getMinimumATSFromSymptoms(text) ==
  IF retrieveRelevantConditions(text) = {} THEN 5
  ELSE MathMin({c.atsCategory : c \in retrieveRelevantConditions(text)})

\* the user messages of a conversation joined by ' ' (words concatenated)
RECURSIVE JoinUser(_, _)
JoinUser(messages, k) ==
  IF k > Len(messages) THEN <<>>
  ELSE (IF messages[k].role = "user" THEN messages[k].content ELSE <<>>)
       \o JoinUser(messages, k + 1)

\* emergencyResult.result built by handleEmergencyTriage
emergencyResult(redFlags) ==
  [atsCategory |-> worstATSOf(redFlags),
   severity |-> 6 - worstATSOf(redFlags),
   urgency |-> (IF atsToUrgency(worstATSOf(redFlags)) = "undefined"
                  THEN "URGENT" ELSE atsToUrgency(worstATSOf(redFlags))),
   confidence |-> 95,
   redFlagsDetected |-> TRUE,
   flags |-> redFlags,
   specialtyMatch |-> "Emergency Medicine"]

\* triageData whose fallback is the fixed category 4, whatever the floor
triageDataOfFixedFallback(outcome, minATSFromKeywords) ==
  IF outcome.kind = "json"
    THEN [atsCategory |-> outcome.atsCategory, confidence |-> outcome.confidence]
    ELSE [atsCategory |-> 4, confidence |-> 60]

\* triageData after the try/catch of performTriage: the parsed LLM JSON, or
\* the fallback with atsCategory = Math.min(4, minATSFromKeywords)
triageDataOf(outcome, minATSFromKeywords) ==
  IF outcome.kind = "json"
    THEN [atsCategory |-> outcome.atsCategory, confidence |-> outcome.confidence]
    ELSE [atsCategory |-> MathMin({4, minATSFromKeywords}), confidence |-> 60]

\* triageData.atsCategory || 4
candidateATS(triageData) ==
  IF triageData.atsCategory = 0 THEN 4 ELSE triageData.atsCategory

\* finalATS without Math.min: the candidate is taken as it is
finalATSOfCandidateOnly(triageData, minATSFromKeywords) == candidateATS(triageData)

\* finalATS = Math.min(triageData.atsCategory || 4, minATSFromKeywords)
finalATSOf(triageData, minATSFromKeywords) ==
  MathMin({candidateATS(triageData), minATSFromKeywords})

\* session.result built by performTriage
sessionResult(triageData, minATSFromKeywords) ==
  [atsCategory |-> finalATSOf(triageData, minATSFromKeywords),
   severity |-> 6 - finalATSOf(triageData, minATSFromKeywords),
   urgency |-> atsToUrgency(finalATSOf(triageData, minATSFromKeywords)),
   confidence |-> (IF triageData.confidence = 0 THEN 70 ELSE triageData.confidence),
   redFlagsDetected |-> (finalATSOf(triageData, minATSFromKeywords) <= 2),
   flags |-> (IF finalATSOf(triageData, minATSFromKeywords) <= 2
                THEN <<"primaryCondition">> ELSE <<>>),
   specialtyMatch |-> "General Practice"]

\* ------------------------------------------------------ ConversationStore
\* a Conversation object that already holds a message
NewConversationNonEmpty ==
  [stage |-> "greeting",
   messages |-> <<[role |-> "assistant", content |-> <<"GREETING">>]>>,
   collectedData |-> [symptoms |-> <<>>, duration |-> "", severity |-> 0],
   triageResult |-> Undefined]

\* the Conversation object made by create()
NewConversation ==
  [stage |-> "greeting",
   messages |-> <<>>,
   collectedData |-> [symptoms |-> <<>>, duration |-> "", severity |-> 0],
   triageResult |-> Undefined]

\* addMessage: conversation.messages.push({role, content})
addMessage(conv, role, content) ==
  [conv EXCEPT !.messages = Append(@, [role |-> role, content |-> content])]

\* updateStage: conversation.stage = stage
updateStage(conv, stage) == [conv EXCEPT !.stage = stage]

\* updateCollectedData: {...conversation.collectedData, ...data}
updateCollectedData(conv, data) == [conv EXCEPT !.collectedData = data]

\* setTriageResult that stores the result and leaves the stage
setTriageResultKeepStage(conv, result) ==
  [conv EXCEPT !.triageResult = Some(result)]

\* setTriageResult: stores the result and sets stage 'complete'
setTriageResult(conv, result) ==
  [conv EXCEPT !.triageResult = Some(result), !.stage = "complete"]


\* ------------------------------------------------------------ LLM provider
\* the messages of the Errors llmClient.chat rejects with: that of a non-2xx
\* response of the provider, and that of fetch when the request fails
LLM_API_ERROR == "LLM API error"

FETCH_FAILED == "fetch failed"

\* a reply of the LLM to the conversational prompt, as parseResponse sees
\* it. kind "json": a JSON object, with its message (<<>>: missing or
\* empty), clinicalAssessment (hasAssessment) and readyToTriage; kind
\* "text": a reply that is not JSON and holds no "message" pair, braces or
\* code fence (message: the reply, trimmed); kind "partial": a cut-off JSON
\* object (message: the value of its "message" pair)
ChatReply(kind, message, hasAssessment, redFlagsIdentified, readyToTriage) ==
  [kind |-> kind, error |-> "", message |-> message,
   hasAssessment |-> hasAssessment,
   symptoms |-> (IF hasAssessment THEN <<"headache">> ELSE <<>>),
   duration |-> (IF hasAssessment THEN "2 days" ELSE ""),
   severity |-> (IF hasAssessment THEN 3 ELSE 0),
   redFlagsIdentified |-> redFlagsIdentified,
   readyToTriage |-> readyToTriage]

\* llmClient.chat rejects with an Error of the given message
ChatRejection(error) ==
  [ChatReply("throw", <<>>, FALSE, 0, FALSE) EXCEPT !.error = error]

\* what llmClient.chat can do for the conversational prompt: reject, or
\* return the JSON object of the response format, with or without a
\* clinicalAssessment, or return text that is not JSON
ChatOutcomes ==
  {ChatRejection(LLM_API_ERROR),
   ChatRejection(FETCH_FAILED),
   ChatReply("json", <<"LLM_REPLY">>, TRUE, 0, FALSE),
   ChatReply("json", <<"LLM_REPLY">>, FALSE, 0, TRUE),
   ChatReply("json", <<"LLM_REPLY">>, TRUE, 1, FALSE),
   ChatReply("json", <<"LLM_REPLY">>, FALSE, 0, FALSE),
   ChatReply("json", <<>>, FALSE, 0, TRUE),
   ChatReply("text", <<"LLM_TEXT">>, FALSE, 0, FALSE),
   ChatReply("text", <<>>, FALSE, 0, FALSE),
   ChatReply("partial", <<"LLM_REPLY">>, FALSE, 0, TRUE)}

\* the atsCategory values the triage LLM may put in its JSON (0: missing)
LLMCategoryValues == {-1, 0, 1, 5, 7}

\* what llmClient.chat can do for the triage prompt (confidence in percent,
\* 0: missing)
TriageOutcomes ==
  {[kind |-> "throw", error |-> LLM_API_ERROR, atsCategory |-> 0, confidence |-> 0],
   [kind |-> "throw", error |-> FETCH_FAILED, atsCategory |-> 0, confidence |-> 0],
   [kind |-> "text", error |-> "", atsCategory |-> 0, confidence |-> 0]}
  \cup {[kind |-> "json", error |-> "", atsCategory |-> c,
          confidence |-> (IF c = 5 THEN 0 ELSE 80)] : c \in LLMCategoryValues}

\* the fallback question of parseResponse
CLARIFY_PROMPT == <<"CLARIFY_PROMPT">>

\* parseResponse(responseText): the parsed JSON object when it has a
\* message; otherwise (catch branch) the text of the reply, or the value of
\* its "message" pair, or the fallback question when nothing is left, with
\* readyToTriage false and no clinicalAssessment
parseResponse(outcome) ==
  IF outcome.kind = "json" /\ outcome.message # <<>>
    THEN [message |-> outcome.message,
          hasAssessment |-> outcome.hasAssessment,
          symptoms |-> outcome.symptoms,
          duration |-> outcome.duration,
          severity |-> outcome.severity,
          redFlagsIdentified |-> outcome.redFlagsIdentified,
          readyToTriage |-> outcome.readyToTriage]
    ELSE [message |-> (IF outcome.kind \in {"text", "partial"}
                            /\ outcome.message # <<>>
                         THEN outcome.message ELSE CLARIFY_PROMPT),
          hasAssessment |-> FALSE,
          symptoms |-> <<>>, duration |-> "", severity |-> 0,
          redFlagsIdentified |-> 0,
          readyToTriage |-> FALSE]

\* [...new Set(seq)]: first occurrences, in order
RECURSIVE Dedupe(_)
Dedupe(seq) ==
  IF seq = <<>> THEN <<>>
  ELSE LET init == Dedupe(SubSeq(seq, 1, Len(seq) - 1))
           last == seq[Len(seq)]
       IN IF \E i \in 1..Len(init) : init[i] = last THEN init
          ELSE Append(init, last)

\* the object passed to updateCollectedData by processMessage
mergedData(currentData, parsed) ==
  [symptoms |-> Dedupe(currentData.symptoms \o parsed.symptoms),
   duration |-> (IF parsed.duration # "" THEN parsed.duration
                 ELSE currentData.duration),
   severity |-> (IF parsed.severity # 0 THEN parsed.severity
                 ELSE currentData.severity)]

\* shouldTriage of processMessage
forceTriageAfter == 4

shouldTriage(parsed, userMessageCount) ==
  \/ parsed.readyToTriage
  \/ userMessageCount >= forceTriageAfter
  \/ parsed.redFlagsIdentified > 0


\* ------------------------------------------------- triage-engine package
\* categoryOrder of getMinimumCategoryFromFlags / enforceMinimumCategory
categoryOrder == <<"ATS1", "ATS2", "ATS3", "ATS4", "ATS5">>

ATSCategory == {categoryOrder[i] : i \in 1..Len(categoryOrder)}

\* the null of "ATSCategory | null"
NullCategory == "null"

\* categoryOrder.indexOf(c), counted from 1
IndexOf(c) == CHOOSE i \in 1..Len(categoryOrder) : categoryOrder[i] = c

\* RED_FLAG_INDICATORS, in table order; ageGated: the row has an
\* ageCondition (age !== undefined && age < 3)
RED_FLAG_INDICATORS == <<
  [id |-> "cardiac_chest_pain",
   keywords |-> <<<<"chest", "pain">>, <<"chest", "tightness">>, <<"chest", "pressure">>,
                  <<"crushing">>, <<"radiating", "to", "arm">>, <<"radiating", "to", "jaw">>>>,
   ageGated |-> FALSE, minCategory |-> "ATS2"],
  [id |-> "severe_dyspnea",
   keywords |-> <<<<"can't", "breathe">>, <<"hard", "to", "breathe">>, <<"gasping">>,
                  <<"choking">>, <<"suffocating">>>>,
   ageGated |-> FALSE, minCategory |-> "ATS1"],
  [id |-> "stroke_symptoms",
   keywords |-> <<<<"face", "drooping">>, <<"arm", "weakness">>, <<"slurred", "speech">>,
                  <<"can't", "speak">>, <<"one", "side">>, <<"sudden", "weakness">>,
                  <<"sudden", "numbness">>>>,
   ageGated |-> FALSE, minCategory |-> "ATS2"],
  [id |-> "thunderclap_headache",
   keywords |-> <<<<"worst", "headache">>, <<"thunderclap">>,
                  <<"sudden", "severe", "headache">>>>,
   ageGated |-> FALSE, minCategory |-> "ATS2"],
  [id |-> "altered_consciousness",
   keywords |-> <<<<"confused">>, <<"disoriented">>, <<"don't", "know", "where">>,
                  <<"altered", "mental">>, <<"not", "making", "sense">>>>,
   ageGated |-> FALSE, minCategory |-> "ATS2"],
  [id |-> "loss_of_consciousness",
   keywords |-> <<<<"passed", "out">>, <<"fainted">>, <<"blacked", "out">>,
                  <<"lost", "consciousness">>, <<"collapsed">>>>,
   ageGated |-> FALSE, minCategory |-> "ATS2"],
  [id |-> "anaphylaxis",
   keywords |-> <<<<"can't", "swallow">>, <<"throat", "closing">>, <<"throat", "swelling">>,
                  <<"tongue", "swelling">>, <<"severe", "allergic">>>>,
   ageGated |-> FALSE, minCategory |-> "ATS1"],
  [id |-> "severe_bleeding",
   keywords |-> <<<<"heavy", "bleeding">>, <<"won't", "stop", "bleeding">>,
                  <<"blood", "everywhere">>, <<"bleeding", "out">>>>,
   ageGated |-> FALSE, minCategory |-> "ATS2"],
  [id |-> "suicidal_ideation",
   keywords |-> <<<<"want", "to", "die">>, <<"kill", "myself">>, <<"suicide">>,
                  <<"self", "harm">>, <<"end", "my", "life">>>>,
   ageGated |-> FALSE, minCategory |-> "ATS2"],
  [id |-> "paediatric_fever",
   keywords |-> <<<<"fever">>, <<"high", "temperature">>>>,
   ageGated |-> TRUE, minCategory |-> "ATS3"]
>>

\* an absent number (age, a vital sign, a severity) is modelled as this
NoNumber == 0 - 1

\* flag.ageCondition(age) of paediatric_fever
ageCondition(age) == age # NoNumber /\ age < 3

\* the first keyword of the flag found in lowerText, or <<>>
RECURSIVE FirstKeyword(_, _, _)
FirstKeyword(lowerText, keywords, j) ==
  IF j > Len(keywords) THEN <<>>
  ELSE IF Includes(lowerText, toLowerCase(keywords[j])) THEN keywords[j]
  ELSE FirstKeyword(lowerText, keywords, j + 1)

RECURSIVE DetectFlags(_, _, _)
DetectFlags(lowerText, age, k) ==
  IF k > Len(RED_FLAG_INDICATORS) THEN <<>>
  ELSE LET flag == RED_FLAG_INDICATORS[k]
           evidence == FirstKeyword(lowerText, flag.keywords, 1)
       IN (IF (flag.ageGated /\ ~ageCondition(age)) \/ evidence = <<>>
             THEN <<>>
             ELSE <<[id |-> flag.id, evidence |-> evidence,
                     minCategory |-> flag.minCategory]>>)
          \o DetectFlags(lowerText, age, k + 1)

\* checkRedFlags that looks for the keywords in the text as it is written
checkRedFlagsCaseSensitive(text, age) == DetectFlags(text, age, 1)

\* checkRedFlags(text, age)
checkRedFlags(text, age) == DetectFlags(toLowerCase(text), age, 1)

\* the minimum category of the flag detected last
getMinimumCategoryFromFlagsLast(flags) ==
  IF Len(flags) = 0 THEN NullCategory ELSE flags[Len(flags)].minCategory

\* getMinimumCategoryFromFlags(flags)
getMinimumCategoryFromFlags(flags) ==
  IF Len(flags) = 0 THEN NullCategory
  ELSE categoryOrder[MathMin({IndexOf(flags[i].minCategory) : i \in 1..Len(flags)})]

\* enforceMinimumCategory without the floor: the LLM category is returned
enforceMinimumCategoryLLMOnly(llmCategory, redFlagCategory) == llmCategory

\* enforceMinimumCategory(llmCategory, redFlagCategory)
enforceMinimumCategory(llmCategory, redFlagCategory) ==
  IF redFlagCategory = NullCategory THEN llmCategory
  ELSE IF IndexOf(llmCategory) <= IndexOf(redFlagCategory) THEN llmCategory
  ELSE redFlagCategory

\* escalateCategory that takes the target whatever the current category
escalateCategoryToTarget(current, target) == target

\* escalateCategory(current, target)
escalateCategory(current, target) ==
  IF current = NullCategory THEN target
  ELSE IF IndexOf(current) <= IndexOf(target) THEN current
  ELSE target

\* thresholds of CLINICAL_DISCRIMINATORS
criticalHypotension == 80

moderateHypotension == 90

criticalTachycardia == 150

criticalBradycardia == 40

criticalHypoxia == 90

moderateHypoxia == 94

highFever == 39

criticalFever == 40

severePainMin == 8

\* a JavaScript number used as a condition: absent and 0 are falsy
Truthy(n) == n # NoNumber /\ n # 0

Alert(type, severity) == [type |-> type, severity |-> severity]

\* the steps of runClinicalRules, in source order: each is <<fires, alerts
\* pushed, escalation target or NullCategory>>
ClinicalSteps(p) ==
  LET v == p.vitals
      age == p.age
  IN <<
    \* systolic blood pressure
    IF p.hasVitals /\ Truthy(v.systolicBP) /\ v.systolicBP < criticalHypotension
      THEN <<Alert("vital_sign", "critical"), "ATS1">>
    ELSE IF p.hasVitals /\ Truthy(v.systolicBP) /\ v.systolicBP < moderateHypotension
      THEN <<Alert("vital_sign", "warning"), "ATS2">>
    ELSE <<>>,
    \* oxygen saturation
    IF p.hasVitals /\ Truthy(v.spo2) /\ v.spo2 < criticalHypoxia
      THEN <<Alert("vital_sign", "critical"), "ATS1">>
    ELSE IF p.hasVitals /\ Truthy(v.spo2) /\ v.spo2 < moderateHypoxia
      THEN <<Alert("vital_sign", "warning"), "ATS2">>
    ELSE <<>>,
    \* heart rate
    IF p.hasVitals /\ Truthy(v.heartRate) /\ v.heartRate > criticalTachycardia
      THEN <<Alert("vital_sign", "critical"), "ATS2">>
    ELSE <<>>,
    IF p.hasVitals /\ Truthy(v.heartRate) /\ v.heartRate < criticalBradycardia
      THEN <<Alert("vital_sign", "critical"), "ATS2">>
    ELSE <<>>,
    \* temperature
    IF p.hasVitals /\ Truthy(v.temperature) /\ v.temperature >= criticalFever
      THEN <<Alert("vital_sign", "critical"),
             IF age # NoNumber /\ age < 3 THEN "ATS2" ELSE "ATS3">>
    ELSE IF p.hasVitals /\ Truthy(v.temperature) /\ v.temperature >= highFever
      THEN <<Alert("vital_sign", "warning"), NullCategory>>
    ELSE <<>>,
    \* age
    IF age # NoNumber /\ age >= 65
      THEN <<Alert("age_risk", "info"), NullCategory>> ELSE <<>>,
    IF age # NoNumber /\ age <= 3
      THEN <<Alert("age_risk", "warning"), NullCategory>> ELSE <<>>,
    IF age # NoNumber /\ age < 1 /\ p.hasVitals /\ Truthy(v.temperature)
         /\ v.temperature >= 38
      THEN <<Alert("age_risk", "critical"), "ATS3">> ELSE <<>>
  >>
  \o \* the loop over presentation.symptoms
  [n \in 1..(2 * Len(p.symptoms)) |->
     LET symptom == p.symptoms[(n + 1) \div 2]
     IN IF n % 2 = 1
          THEN IF Truthy(symptom.severity) /\ symptom.severity >= severePainMin
                 THEN <<Alert("symptom_combination", "warning"), "ATS3">>
                 ELSE <<>>
          ELSE IF symptom.onset = "sudden"
                 THEN <<Alert("time_critical", "info"), NullCategory>>
                 ELSE <<>>]

\* minimumCategory after the first n steps
RECURSIVE FoldCategory(_, _, _)
FoldCategory(steps, n, currentMinCategory) ==
  IF n = 0 THEN currentMinCategory
  ELSE LET before == FoldCategory(steps, n - 1, currentMinCategory)
       IN IF steps[n] = <<>> \/ steps[n][2] = NullCategory THEN before
          ELSE escalateCategory(before, steps[n][2])

RECURSIVE FoldAlerts(_, _)
FoldAlerts(steps, n) ==
  IF n = 0 THEN <<>>
  ELSE FoldAlerts(steps, n - 1)
       \o (IF steps[n] = <<>> THEN <<>> ELSE <<steps[n][1]>>)

AuditEntry(layer, step) == [layer |-> layer, step |-> step]

\* runClinicalRules(presentation, currentMinCategory)
runClinicalRules(p, currentMinCategory) ==
  [clinicalAlerts |-> FoldAlerts(ClinicalSteps(p), Len(ClinicalSteps(p))),
   minimumCategory |->
     FoldCategory(ClinicalSteps(p), Len(ClinicalSteps(p)), currentMinCategory),
   auditLog |-> <<AuditEntry("clinical", "START"), AuditEntry("clinical", "COMPLETE")>>]

\* symptomStr of buildRawInput for a symptom without location and duration
symptomStr(symptom) ==
  symptom.description
  \o (IF Truthy(symptom.severity)
        THEN <<"-", "severity", ToString(symptom.severity) \o "/10">> ELSE <<>>)
  \o (IF symptom.onset # "" THEN <<"-", symptom.onset, "onset">> ELSE <<>>)

\* parts.join('. ') of buildRawInput: the chief complaint, then the symptoms
RECURSIVE JoinSymptoms(_, _)
JoinSymptoms(symptoms, k) ==
  IF k > Len(symptoms) THEN <<>>
  ELSE <<".">> \o symptomStr(symptoms[k]) \o JoinSymptoms(symptoms, k + 1)

\* buildRawInput(presentation)
buildRawInput(p) == p.chiefComplaint \o JoinSymptoms(p.symptoms, 1)

\* runKeywordDetection(rawInput, age)
runKeywordDetection(rawInput, age) ==
  [redFlagsDetected |-> checkRedFlags(rawInput, age),
   minimumCategory |-> getMinimumCategoryFromFlags(checkRedFlags(rawInput, age)),
   auditLog |-> <<AuditEntry("keyword", "START"), AuditEntry("keyword", "COMPLETE")>>]

\* GuardrailsEngine.preProcess(rawInput, presentation)
preProcess(rawInput, p) ==
  LET keywordResult == runKeywordDetection(rawInput, p.age)
      clinicalResult == runClinicalRules(p, keywordResult.minimumCategory)
  IN [minimumCategory |-> clinicalResult.minimumCategory,
      redFlagsDetected |-> keywordResult.redFlagsDetected,
      clinicalAlerts |-> clinicalResult.clinicalAlerts,
      auditLog |-> keywordResult.auditLog \o clinicalResult.auditLog]

HasCritical(clinicalAlerts) ==
  \E i \in 1..Len(clinicalAlerts) : clinicalAlerts[i].severity = "critical"

\* clinicalAlerts.filter(a => a.severity === 'critical')
CriticalAlerts(clinicalAlerts) ==
  SelectSeq(clinicalAlerts, LAMBDA a : a.severity = "critical")

\* redFlagsDetected.map(f => f.name): a flag is named by its id
FlagNames(redFlagsDetected) ==
  [i \in 1..Len(redFlagsDetected) |-> redFlagsDetected[i].id]

\* an escalationReason string: the red flags and the critical alerts it
\* lists
EscalationReason(redFlags, criticalAlerts) ==
  [redFlags |-> redFlags, criticalAlerts |-> criticalAlerts]

\* applySafetyEnvelope(llmCategory, guardrailsMinimum, redFlagsDetected,
\* clinicalAlerts); escalationReason is Undefined for null
applySafetyEnvelope(llmCategory, guardrailsMinimum, redFlagsDetected, clinicalAlerts) ==
  LET finalCategory == enforceMinimumCategory(llmCategory, guardrailsMinimum)
      wasEscalated == finalCategory # llmCategory
  IN [finalCategory |-> finalCategory,
      wasEscalated |-> wasEscalated,
      escalationReason |->
        IF ~wasEscalated THEN Undefined
        ELSE IF Len(redFlagsDetected) > 0
          THEN Some(EscalationReason(FlagNames(redFlagsDetected), <<>>))
        ELSE IF HasCritical(clinicalAlerts)
          THEN Some(EscalationReason(<<>>, CriticalAlerts(clinicalAlerts)))
        ELSE Undefined,
      auditLog |-> <<AuditEntry("safety", "START"), AuditEntry("safety", "COMPLETE")>>]

\* what the LLM client can do for ATSTriageEngine.callLLM: throw or return
\* text that fails JSON.parse / the zod schema (kind "fail"), or return a
\* valid LLMTriageResponse (confidence in percent)
ATSLLMFailure == [kind |-> "fail", category |-> NullCategory, confidence |-> 0]

ATSLLMOutcomes ==
  {ATSLLMFailure}
  \cup {[kind |-> "json", category |-> c, confidence |-> 80] : c \in ATSCategory}

\* callLLM(presentation, guardrailsResult): the response or the fallback
callLLM(outcome, guardrailsResult) ==
  IF outcome.kind = "json"
    THEN [category |-> outcome.category, confidence |-> outcome.confidence]
    ELSE [category |-> (IF guardrailsResult.minimumCategory # NullCategory
                          THEN guardrailsResult.minimumCategory ELSE "ATS4"),
          confidence |-> 50]

\* ATSTriageEngine.assess(presentation) for one outcome of the LLM call
assess(p, outcome) ==
  LET guardrailsResult == preProcess(buildRawInput(p), p)
      llmResponse == callLLM(outcome, guardrailsResult)
      safetyResult == applySafetyEnvelope(llmResponse.category,
                        guardrailsResult.minimumCategory,
                        guardrailsResult.redFlagsDetected,
                        guardrailsResult.clinicalAlerts)
  IN [category |-> safetyResult.finalCategory,
      confidence |-> (IF safetyResult.wasEscalated THEN 95
                      ELSE llmResponse.confidence),
      redFlagsDetected |-> guardrailsResult.redFlagsDetected,
      \* `Category escalated from ... to .... ${escalationReason}`
      escalationNotes |-> (IF safetyResult.wasEscalated
                             THEN Some(safetyResult.escalationReason)
                             ELSE Undefined),
      auditTrail |-> <<AuditEntry("", "INPUT_RECEIVED")>>
                     \o guardrailsResult.auditLog
                     \o <<AuditEntry("", "GUARDRAILS_COMPLETE"),
                          AuditEntry("", "LLM_ASSESSMENT")>>
                     \o safetyResult.auditLog
                     \o <<AuditEntry("", "ASSESSMENT_COMPLETE")>>]

\* presentations of the model
TextGasping == <<"gasping", "for", "air">>

TextFever == <<"CHEST", "PAIN", "and", "fever">>

TextChestPain == <<"i", "have", "chest", "pain">>

NoVitals == [systolicBP |-> NoNumber, spo2 |-> NoNumber,
             heartRate |-> NoNumber, temperature |-> NoNumber]

VitalsOfModel ==
  {NoVitals,
   [NoVitals EXCEPT !.systolicBP = 75],
   [NoVitals EXCEPT !.systolicBP = 85],
   [NoVitals EXCEPT !.spo2 = 88],
   [NoVitals EXCEPT !.spo2 = 92],
   [NoVitals EXCEPT !.heartRate = 160],
   [NoVitals EXCEPT !.heartRate = 35],
   [NoVitals EXCEPT !.temperature = 38],
   [NoVitals EXCEPT !.temperature = 39],
   [NoVitals EXCEPT !.temperature = 40],
   [NoVitals EXCEPT !.systolicBP = 85, !.spo2 = 88, !.temperature = 40]}

SymptomsOfModel ==
  {<<>>,
   <<[description |-> <<"back", "pain">>, severity |-> 8, onset |-> "sudden"]>>,
   <<[description |-> <<"worst", "headache">>, severity |-> 5, onset |-> "gradual"]>>}

Presentations ==
  {[chiefComplaint |-> t, age |-> a, hasVitals |-> (v # NoVitals), vitals |-> v,
    symptoms |-> sy] :
     t \in {TextHeadache, TextChest, TextGasping, TextFever, TextChestPain},
     a \in {NoNumber, 0, 2, 70},
     v \in VitalsOfModel,
     sy \in SymptomsOfModel}

\* ------------------------------------------ TriageEngine (triage-engine)
\* keywordPatterns of TriageEngine.checkRedFlagKeywords, in table order; an
\* alternative is matched as whole words
TriageEngine_keywordPatterns == <<
  [pattern |-> {<<<<"chest", "pain">>>>, <<<<"chest", "tightness">>>>,
                <<<<"chest", "pressure">>>>},
   flag |-> "Chest pain"],
  [pattern |-> {<<<<"can't", "breathe">>>>, <<<<"hard", "to", "breathe">>>>,
                <<<<"shortness", "of", "breath">>>>, <<<<"gasping">>>>},
   flag |-> "Difficulty breathing"],
  [pattern |-> {<<<<"worst", "headache">>>>, <<<<"thunderclap", "headache">>>>,
                <<<<"sudden", "severe", "headache">>>>},
   flag |-> "Sudden severe headache"],
  [pattern |-> {<<<<"passed", "out">>>>, <<<<"fainted">>>>,
                <<<<"lost", "consciousness">>>>, <<<<"blacked", "out">>>>},
   flag |-> "Loss of consciousness"],
  [pattern |-> {<<<<"face", "droop">>>>, <<<<"arm", "weak">>>>,
                <<<<"slurred", "speech">>>>, <<<<"can't", "speak">>>>,
                <<<<"one", "side">>>>},
   flag |-> "Possible stroke symptoms"],
  [pattern |-> {<<<<"can't", "swallow">>>>, <<<<"throat", "closing">>>>,
                <<<<"swelling">>, <<"throat">>>>},
   flag |-> "Possible anaphylaxis"],
  [pattern |-> {<<<<"want", "to", "die">>>>, <<<<"kill", "myself">>>>,
                <<<<"suicide">>>>, <<<<"self", "harm">>>>, <<<<"self-harm">>>>,
                <<<<"selfharm">>>>},
   flag |-> "Suicidal ideation"],
  [pattern |-> {<<<<"heavy", "bleeding">>>>, <<<<"won't", "stop", "bleeding">>>>,
                <<<<"blood", "everywhere">>>>},
   flag |-> "Severe bleeding"],
  [pattern |-> {<<<<"confused">>>>, <<<<"don't", "know", "where">>>>,
                <<<<"altered", "mental">>>>},
   flag |-> "Altered mental status"]
>>

RECURSIVE TriageEngine_CollectFlags(_, _)
TriageEngine_CollectFlags(lowerText, k) ==
  IF k > Len(TriageEngine_keywordPatterns) THEN <<>>
  ELSE (IF RegexTest(TriageEngine_keywordPatterns[k].pattern, lowerText)
          THEN <<TriageEngine_keywordPatterns[k].flag>> ELSE <<>>)
       \o TriageEngine_CollectFlags(lowerText, k + 1)

\* TriageEngine.checkRedFlagKeywords(text)
TriageEngine_checkRedFlagKeywords(text) ==
  TriageEngine_CollectFlags(toLowerCase(text), 1)

\* UrgencyLevel, from the most urgent to the least urgent
UrgencyLevel ==
  <<"EMERGENCY", "URGENT", "SEMI_URGENT", "STANDARD", "NON_URGENT">>

\* what the LLM client can do for TriageEngine.assess: throw or return text
\* that fails JSON.parse / TriageResultSchema (kind "fail"), or return a
\* valid TriageResult
TriageEngineFailure ==
  [kind |-> "fail", severity |-> 1, urgency |-> "NON_URGENT", detected |-> FALSE]

TriageEngineOutcomes ==
  {TriageEngineFailure}
  \cup {[kind |-> "json", severity |-> sv, urgency |-> UrgencyLevel[u],
          detected |-> d] :
           sv \in {1, 3, 5}, u \in 1..Len(UrgencyLevel), d \in BOOLEAN}

\* intake.rawInput in the model
IntakeTexts == {TextHeadache, TextChest, TextGasping}

\* the TriageResult TriageEngine.assess returns for a valid LLM result:
\* the result with the safety net of the keyword detection applied
TriageEngine_assess(rawInput, outcome) ==
  LET additionalFlags == TriageEngine_checkRedFlagKeywords(rawInput)
  IN IF Len(additionalFlags) > 0 /\ ~outcome.detected
       THEN [severity |-> (IF outcome.severity < 4 THEN 4 ELSE outcome.severity),
             urgency |-> "URGENT",
             redFlags |-> [detected |-> TRUE, flags |-> additionalFlags]]
       ELSE [severity |-> outcome.severity,
             urgency |-> outcome.urgency,
             redFlags |-> [detected |-> outcome.detected, flags |-> <<>>]]

\* ------------------------------------ serverless handler (api/conversation)
\* rows of the patterns table of the handler's checkRedFlags, in table
\* order: the rows whose words occur in the texts of the model
handlerPatterns == <<
  [pattern |-> {<<<<"no", "pulse">>>>, <<<<"has", "no", "pulse">>>>,
                <<<<"not", "beating">>>>, <<<<"heart", "stopped">>>>},
   condition |-> "Cardiac arrest", ats |-> 1],
  [pattern |-> {<<<<"not", "breathing">>>>, <<<<"stopped", "breathing">>>>,
                <<<<"barely", "breathing">>>>, <<<<"lips">>, <<"blue">>>>,
                <<<<"cyanosis">>>>},
   condition |-> "Respiratory arrest", ats |-> 1],
  [pattern |-> {<<<<"chest", "pain">>>>, <<<<"chest", "tightness">>>>,
                <<<<"chest", "pressure">>>>, <<<<"crushing">>, <<"chest">>>>,
                <<<<"radiating">>, <<"arm">>>>},
   condition |-> "Chest pain", ats |-> 2],
  [pattern |-> {<<<<"can't", "breathe">>>>, <<<<"cannot", "breathe">>>>,
                <<<<"hard", "to", "breathe">>>>,
                <<<<"shortness", "of", "breath">>>>, <<<<"gasping">>>>,
                <<<<"difficulty", "breathing">>>>},
   condition |-> "Difficulty breathing", ats |-> 2],
  [pattern |-> {<<<<"high", "fever">>>>, <<<<"fever">>, <<"39">>>>,
                <<<<"fever">>, <<"40">>>>, <<<<"temperature">>, <<"39">>>>,
                <<<<"temperature">>, <<"40">>>>},
   condition |-> "High fever", ats |-> 3]
>>

RECURSIVE HandlerCollectFlags(_, _)
HandlerCollectFlags(lowerText, k) ==
  IF k > Len(handlerPatterns) THEN <<>>
  ELSE (IF RegexTest(handlerPatterns[k].pattern, lowerText)
          THEN <<[condition |-> handlerPatterns[k].condition,
                  ats |-> handlerPatterns[k].ats]>>
          ELSE <<>>)
       \o HandlerCollectFlags(lowerText, k + 1)

\* checkRedFlags(text) of the handler
handlerCheckRedFlags(text) == HandlerCollectFlags(toLowerCase(text), 1)

\* atsConfig[ats].urgency ; "undefined" when atsConfig has no such key
atsConfigUrgency(ats) ==
  CASE ats = 1 -> "EMERGENCY"
    [] ats = 2 -> "EMERGENCY"
    [] ats = 3 -> "URGENT"
    [] ats = 4 -> "SEMI_URGENT"
    [] ats = 5 -> "NON_URGENT"
    [] OTHER -> "undefined"

\* urgencyToATS[urgency] || 4
urgencyToATS(urgency) ==
  CASE urgency = "EMERGENCY" -> 2
    [] urgency = "URGENT" -> 3
    [] urgency = "SEMI_URGENT" -> 4
    [] urgency = "SEMI-URGENT" -> 4
    [] urgency = "STANDARD" -> 4
    [] urgency = "NON_URGENT" -> 5
    [] urgency = "NON-URGENT" -> 5
    [] OTHER -> 4

\* the triageResult objects the LLM may return to the handler: atsCategory
\* (0: missing), the digit after "ATS" in category (NoNumber: no category or
\* no match), severity (0: missing), urgency ("": missing), maxWaitTime
\* present or not, confidence in percent (0: missing)
LLMTriageResult(atsCategory, categoryDigit, severity, urgency, hasMaxWaitTime, confidence) ==
  [atsCategory |-> atsCategory, categoryDigit |-> categoryDigit,
   severity |-> severity, urgency |-> urgency,
   hasMaxWaitTime |-> hasMaxWaitTime, confidence |-> confidence]

NoTriageResult == LLMTriageResult(0, NoNumber, 0, "", FALSE, 0)

HandlerTriageResults ==
  {LLMTriageResult(3, NoNumber, 0, "", FALSE, 0),
   LLMTriageResult(3, NoNumber, 0, "", FALSE, 80),
   LLMTriageResult(3, NoNumber, 0, "", FALSE, 95),
   LLMTriageResult(7, NoNumber, 0, "EMERGENCY", TRUE, 0),
   LLMTriageResult(7, NoNumber, 0, "", FALSE, 0),
   LLMTriageResult(0 - 1, NoNumber, 0, "EMERGENCY", TRUE, 0),
   LLMTriageResult(0, 7, 0, "EMERGENCY", TRUE, 0),
   LLMTriageResult(0, NoNumber, 7, "EMERGENCY", TRUE, 0),
   LLMTriageResult(0, NoNumber, 0, "EMERGENCY", FALSE, 0),
   NoTriageResult}

\* the message bodies sent to the handler in the model
HandlerTexts == {TextHeadache, TextChest, <<>>}

\* what the body of the Groq API response can be for the handler.  kind
\* "error": the text of a non-2xx response; "badbody": response.json()
\* rejects; "nochoices": JSON without choices; "text": a content without a
\* JSON object (text; empty when content is missing or empty); "json": a
\* content with the JSON object of the response format, with or without
\* its message field
HandlerOutcome(kind, text, hasMessage, readyToTriage, hasTriageResult, triageResult) ==
  [kind |-> kind, text |-> text, hasMessage |-> hasMessage,
   readyToTriage |-> readyToTriage, hasTriageResult |-> hasTriageResult,
   triageResult |-> triageResult]

HandlerOutcomes ==
  {HandlerOutcome("error", <<>>, FALSE, FALSE, FALSE, NoTriageResult),
   HandlerOutcome("badbody", <<>>, FALSE, FALSE, FALSE, NoTriageResult),
   HandlerOutcome("nochoices", <<>>, FALSE, FALSE, FALSE, NoTriageResult),
   HandlerOutcome("text", <<"LLM_TEXT">>, FALSE, FALSE, FALSE, NoTriageResult),
   HandlerOutcome("text", <<>>, FALSE, FALSE, FALSE, NoTriageResult),
   HandlerOutcome("json", <<>>, TRUE, FALSE, FALSE, NoTriageResult),
   HandlerOutcome("json", <<>>, FALSE, FALSE, FALSE, NoTriageResult),
   HandlerOutcome("json", <<>>, TRUE, TRUE, FALSE, NoTriageResult),
   HandlerOutcome("json", <<>>, TRUE, FALSE, TRUE,
                  LLMTriageResult(3, NoNumber, 0, "", FALSE, 80)),
   HandlerOutcome("json", <<>>, FALSE, TRUE, TRUE,
                  LLMTriageResult(3, NoNumber, 0, "", FALSE, 80))}
  \cup {HandlerOutcome("json", <<>>, TRUE, TRUE, TRUE, t) :
          t \in HandlerTriageResults}

\* atsFromLLM || 4 of the handler's normalisation
handlerFinalATS(t) ==
  LET fromCategory == IF t.atsCategory = 0 /\ t.categoryDigit # NoNumber
                        THEN t.categoryDigit ELSE t.atsCategory
      fromSeverity == IF fromCategory = 0 /\ t.severity # 0
                        THEN 6 - t.severity ELSE fromCategory
      fromUrgency == IF fromSeverity = 0 /\ t.urgency # ""
                       THEN urgencyToATS(t.urgency) ELSE fromSeverity
  IN IF fromUrgency = 0 THEN 4 ELSE fromUrgency

\* the normalisation reads config.wait or config.urgency of an undefined
\* config: TypeError
handlerNormalizeThrows(t) ==
  /\ atsConfigUrgency(handlerFinalATS(t)) = "undefined"
  /\ ~t.hasMaxWaitTime \/ t.urgency = ""

\* result of the triageResult the handler returns; a field the reply did
\* not have is 0 or ""
HandlerResult(atsCategory, severity, urgency, confidence) ==
  [atsCategory |-> atsCategory, severity |-> severity, urgency |-> urgency,
   confidence |-> confidence]

\* parsed.triageResult after "Force triage if red flags detected" and
\* "Normalize LLM triage result", for a reply that was parsed
handlerTriageResult(redFlags, outcome) ==
  LET t == outcome.triageResult
      worstATS == MathMin({redFlags[i].ats : i \in 1..Len(redFlags)})
  IN IF Len(redFlags) > 0 /\ ~outcome.readyToTriage
       THEN Some(HandlerResult(worstATS, 6 - worstATS,
                               atsConfigUrgency(worstATS), 95))
     ELSE IF ~outcome.hasTriageResult THEN Undefined
     ELSE IF outcome.readyToTriage /\ Len(redFlags) = 0
       THEN Some(HandlerResult(
              handlerFinalATS(t),
              IF t.severity # 0 THEN t.severity ELSE 6 - handlerFinalATS(t),
              IF t.urgency # "" THEN t.urgency
                ELSE atsConfigUrgency(handlerFinalATS(t)),
              \* parsed.triageResult.confidence || 0.7
              IF t.confidence # 0 THEN t.confidence ELSE 70))
     ELSE Some(HandlerResult(t.atsCategory, t.severity, t.urgency,
                             t.confidence))

\* what res.json / res.status(n).json sends; message is undefined when
\* parsed has no message; error and details are those of an error response
HandlerResponse(status, message, isComplete, triageResult) ==
  [status |-> status, message |-> message,
   stage |-> (IF isComplete THEN "complete" ELSE "collecting"),
   isComplete |-> isComplete, triageResult |-> triageResult,
   error |-> "", details |-> ""]

\* the body of the provider's non-2xx response, as text
PROVIDER_BODY == "PROVIDER_BODY"

\* the message of the Error thrown when response.ok is false
GroqError == "Groq API error: " \o PROVIDER_BODY

\* the message of the TypeError thrown when a property of undefined is read
TypeErrorMessage == "TypeError"

\* the message of the SyntaxError response.json() rejects with
SyntaxErrorMessage == "SyntaxError: Unexpected token"

\* res.status(status).json({error, details}) of the handler
HandlerError(status, error, details) ==
  [HandlerResponse(status, Undefined, FALSE, Undefined) EXCEPT
     !.error = error, !.details = details]

\* the handler from the settling of response.text() or response.json() to
\* the response, for the call whose conversation object holds the messages
\* of conversation (its own user message included): the messages of the
\* object it puts into the Map, if it does, and the response it sends; the
\* content of a message is a string or undefined
handlerRun(conversation, message, outcome) ==
  LET redFlags == handlerCheckRedFlags(message)
      \* parsed.message
      reply == IF outcome.kind = "json"
                 THEN (IF outcome.hasMessage THEN Some(<<"LLM_REPLY">>)
                       ELSE Undefined)
                 ELSE Some(outcome.text)
      ready == (outcome.kind = "json" /\ outcome.readyToTriage)
                 \/ Len(redFlags) > 0
  IN IF outcome.kind = "error"
       THEN [messages |-> Undefined,
             response |-> HandlerError(500, "Failed to process message", GroqError)]
     ELSE IF outcome.kind = "badbody"
       THEN [messages |-> Undefined,
             response |-> HandlerError(500, "Failed to process message",
                                       SyntaxErrorMessage)]
     ELSE IF outcome.kind = "nochoices"
       THEN [messages |-> Undefined,
             response |-> HandlerError(500, "Failed to process message",
                                       TypeErrorMessage)]
     ELSE IF /\ outcome.kind = "json" /\ outcome.readyToTriage
             /\ outcome.hasTriageResult /\ Len(redFlags) = 0
             /\ handlerNormalizeThrows(outcome.triageResult)
       THEN [messages |-> Undefined,
             response |-> HandlerError(500, "Failed to process message",
                                       TypeErrorMessage)]
     ELSE [messages |->
             Some(Append(conversation, [role |-> "assistant", content |-> reply])),
           response |->
             HandlerResponse(200, reply, ready,
               handlerTriageResult(redFlags,
                 IF outcome.kind = "json" THEN outcome
                 ELSE [outcome EXCEPT !.readyToTriage = FALSE]))]

\* ------------------------------------------ api/lib/rate-limiter.ts
\* limits: the requests allowed per window and the window, in milliseconds
limits ==
  [start |-> [limit |-> 10, windowMs |-> 60000],
   message |-> [limit |-> 30, windowMs |-> 60000],
   general |-> [limit |-> 60, windowMs |-> 60000]]

\* the first address of x-forwarded-for of the requests of the model
ClientIPs == {"203.0.113.1", "203.0.113.2"}

\* the RateLimitType of the requests of the model: conversation/start
RequestTypes == {"start"}

\* `${ip}:${type}`
Identifier(ip, type) == ip \o ":" \o type

Identifiers == {Identifier(ip, type) : ip \in ClientIPs, type \in RequestTypes}

\* Math.ceil(a / b) for a >= 0, b > 0
MathCeilDiv(a, b) == (a + b - 1) \div b

\* checkInMemoryLimit with a window that admits limit + 1 requests
checkInMemoryLimitOneMore(store, key, limit, windowMs, at) ==
  LET record == store[key]
  IN IF record = Undefined \/ record[1].resetAt < at
       THEN [store |-> [store EXCEPT ![key] =
                          Some([count |-> 1, resetAt |-> at + windowMs])],
             success |-> TRUE, remaining |-> limit - 1, reset |-> at + windowMs]
     ELSE IF record[1].count > limit
       THEN [store |-> store,
             success |-> FALSE, remaining |-> 0, reset |-> record[1].resetAt]
     ELSE [store |-> [store EXCEPT ![key] =
                        Some([record[1] EXCEPT !.count = @ + 1])],
           success |-> TRUE, remaining |-> limit - (record[1].count + 1),
           reset |-> record[1].resetAt]

\* checkInMemoryLimit(key, limit, windowMs) at Date.now() = at: the store it
\* leaves and the result it returns
checkInMemoryLimit(store, key, limit, windowMs, at) ==
  LET record == store[key]
  IN IF record = Undefined \/ record[1].resetAt < at
       THEN \* new window
            [store |-> [store EXCEPT ![key] =
                          Some([count |-> 1, resetAt |-> at + windowMs])],
             success |-> TRUE, remaining |-> limit - 1, reset |-> at + windowMs]
     ELSE IF record[1].count >= limit
       THEN [store |-> store,
             success |-> FALSE, remaining |-> 0, reset |-> record[1].resetAt]
     ELSE [store |-> [store EXCEPT ![key] =
                        Some([record[1] EXCEPT !.count = @ + 1])],
           success |-> TRUE, remaining |-> limit - (record[1].count + 1),
           reset |-> record[1].resetAt]

\* what checkRateLimit answers: its return value, the X-RateLimit headers
\* and, when it rejects, the status and retryAfter of the response it sends
\* (status 0: it sends none)
RateLimitAnswer(identifier, type, result, at) ==
  [identifier |-> identifier,
   at |-> at,
   allowed |-> result.success,
   limitHeader |-> limits[type].limit,
   remainingHeader |-> IF result.remaining > 0 THEN result.remaining ELSE 0,
   resetHeader |-> MathCeilDiv(result.reset, 1000),
   status |-> IF result.success THEN 0 ELSE 429,
   retryAfter |-> IF result.success THEN 0
                  ELSE MathCeilDiv(result.reset - at, 1000)]

\* the time between two readings of Date.now() in the model, in milliseconds
ClockStepMs == 30000

\* ------------------------------------------------------------------ state
VARIABLES
  conversations,  \* the Conversation objects create() has built, by id
  stored,         \* the ids ConversationStore.conversations holds, oldest updatedAt first
  frames,         \* the processMessage calls in progress, in start order
  returned,       \* the processMessage call that returned in the last step, if any
  observed,       \* what getConversation returned in the last step, if any
  started,        \* what startConversation returned in the last step, if any
  starting,       \* the startConversation calls in progress, in start order
  assessing,      \* the ATSTriageEngine.assess calls in progress: presentation, pc, outcome
  assessment,     \* the ATSTriageEngine.assess call that returned in the last step, if any
  intakes,        \* the TriageEngine.assess calls in progress: rawInput, pc, outcome
  triaged,        \* the TriageEngine.assess call that returned in the last step, if any
  handlerObjects, \* the conversation objects of the serverless handler: their messages
  handlerConversations,  \* its conversations Map: id -> index in handlerObjects, 0: none
  handling,       \* the handler calls in progress, in start order
  handled,        \* the response the serverless handler sent in the last step, if any
  inMemoryStore,  \* rate-limiter.ts inMemoryStore: identifier -> {count, resetAt}
  now,            \* Date.now() of the serverless functions, from their start
  limited,        \* what checkRateLimit answered in the last step, if any
  requestLog      \* per identifier, the time and outcome of its requests so far

vars == <<conversations, stored, frames, returned, observed, started, starting,
          assessing, assessment, intakes, triaged,
          handlerObjects, handlerConversations, handling, handled,
          inMemoryStore, now, limited, requestLog>>

limiterVars == <<inMemoryStore, now, limited, requestLog>>

\* the state of the callers of the triage-engine package
engineVars == <<assessing, assessment, intakes, triaged>>

\* the state of the serverless functions of api/
handlerVars ==
  <<handlerObjects, handlerConversations, handling, handled, limiterVars>>

\* the conversation ids of the model; create() hands them out in order
ConvIds == 1..MaxConvs

Stages == {"greeting", "collecting", "clarifying", "triaging", "complete"}

GREETING_MESSAGE == <<"GREETING">>

ALREADY_COMPLETED == <<"ALREADY_COMPLETED">>

urgentMessage == <<"URGENT_MESSAGE">>

\* a ConversationResponse returned to the caller
Response(message, stage, isComplete, triageResult) ==
  [status |-> "ok", error |-> "", errors |-> <<>>, message |-> message,
   stage |-> stage, isComplete |-> isComplete, triageResult |-> triageResult]

\* processMessage rejected with an Error whose message is error
Thrown(error) ==
  [status |-> "error", error |-> error, errors |-> <<>>, message |-> <<>>,
   stage |-> "", isComplete |-> FALSE, triageResult |-> Undefined]

\* z.string().max(5000) of SendMessageRequestSchema
messageMaxLength == 5000

\* the issues of the ZodError SendMessageRequestSchema.parse throws for a
\* message of the given length (err.errors: path joined by '.', message);
\* none when the message passes
TooSmall ==
  [path |-> "message", message |-> "String must contain at least 1 character(s)"]

TooBig ==
  [path |-> "message", message |-> "String must contain at most " \o ToString(messageMaxLength) \o " character(s)"]

InvalidUuid == [path |-> "conversationId", message |-> "Invalid uuid"]

SendMessageRequestIssues(length) ==
  IF length < 1 THEN <<TooSmall>>
  ELSE IF length > messageMaxLength THEN <<TooBig>>
  ELSE <<>>

\* the request was rejected with a ZodError that has the issues errors
ThrownZodError(errors) ==
  [Thrown("VALIDATION_ERROR") EXCEPT !.errors = errors]

NoResponse == Response(<<>>, "", FALSE, Undefined)

\* `Conversation ${id} not found`, the message of the Error every method of
\* the store but get and create throws when the Map has no such id
ConversationNotFound(id) == "Conversation " \o ToString(id) \o " not found"

\* err.message.includes('not found') for the messages of the model
IncludesNotFound(err) ==
  \/ err = "Conversation not found"
  \/ \E id \in 1..(MaxConvs + MaxIsolatedConvs) : err = ConversationNotFound(id)

\* the message of the TypeError thrown when performTriage reads
\* collectedData of an undefined conversation (line 553)
TypeErrorOfUndefined == "TypeError: conversation is undefined"

\* errorHandler(err, req, res, next): the status and the body it sends for
\* the rejection thrown (Thrown, ThrownZodError) whose Error has the message
\* err; production: NODE_ENV === 'production'
errorHandler(thrown, production) ==
  LET err == thrown.error
  IN
  CASE err = "VALIDATION_ERROR" ->  \* err instanceof ZodError
         [status |-> 400, error |-> "VALIDATION_ERROR", message |-> "Invalid input",
          details |-> thrown.errors]
    [] err = LLM_API_ERROR ->       \* err.message.includes('API')
         [status |-> 503, error |-> "AI_SERVICE_ERROR",
          message |-> "AI service is temporarily unavailable. Please try again."]
    [] IncludesNotFound(err) ->     \* err.message.includes('not found')
         [status |-> 404, error |-> "NOT_FOUND", message |-> err]
    [] OTHER ->
         [status |-> 500, error |-> "INTERNAL_ERROR",
          message |-> (IF production THEN "An unexpected error occurred" ELSE err)]

\* the frame of one processMessage call: its arguments (id, text), the
\* locals that live across an await (found: conversation is defined;
\* redFlags, allUserMessages, minATS, userMessageCount; message,
\* readyToTriage and redFlagsIdentified are those of parsed), what it did
\* so far (turn: the number of user messages once
\* its own was added; stageBefore: the stage it found; foundForTriage: the
\* conversation performTriage got is defined; error: the message of the
\* Error an awaited store method threw; llmCalls: its calls
\* of llmClient.chat; llmFailed: one of them threw; parseFailed: JSON.parse
\* of the triage reply threw) and, once it has returned, its response
NewCall(id, text) ==
  [id |-> id, text |-> text, pc |-> "done", found |-> FALSE,
   stageBefore |-> "", turn |-> 0, allUserMessages |-> <<>>, llmFailed |-> FALSE,
   parseFailed |-> FALSE,
   redFlags |-> <<>>, minATS |-> 0, userMessageCount |-> 0,
   message |-> <<>>, readyToTriage |-> FALSE, redFlagsIdentified |-> 0,
   llmCalls |-> 0, candidate |-> Undefined, candidateConfidence |-> 0,
   foundForTriage |-> FALSE, error |-> "",
   resp |-> NoResponse]

\* the sequence seq without its k-th element
RemoveAt(seq, k) == SubSeq(seq, 1, k - 1) \o SubSeq(seq, k + 1, Len(seq))

\* user messages stored so far, over all conversations
RECURSIVE TotalTurns(_)
TotalTurns(n) ==
  IF n = 0 THEN 0 ELSE CountUser(conversations[n].messages) + TotalTurns(n - 1)

\* The API service, the triage-engine package and the serverless handler
\* are separate programs that share no state (none imports another): a
\* behaviour runs one of them.
ServiceUsed ==
  conversations # <<>> \/ frames # <<>> \/ returned # Undefined
    \/ observed # Undefined \/ started # Undefined \/ starting # <<>>

ATSTriageEngineUsed == assessment # Undefined \/ assessing # <<>>

TriageEngineUsed == triaged # Undefined \/ intakes # <<>>

EngineUsed == ATSTriageEngineUsed \/ TriageEngineUsed

HandlerUsed == handled # Undefined \/ handling # <<>>

Init ==
  /\ conversations = <<>>
  /\ stored = <<>>
  /\ frames = <<>>
  /\ returned = Undefined
  /\ observed = Undefined
  /\ started = Undefined
  /\ starting = <<>>
  /\ assessing = <<>>
  /\ assessment = Undefined
  /\ intakes = <<>>
  /\ triaged = Undefined
  /\ handlerObjects = <<>>
  /\ handlerConversations = [id \in ConvIds |-> 0]
  /\ handling = <<>>
  /\ handled = Undefined
  /\ inMemoryStore = [identifier \in Identifiers |-> Undefined]
  /\ now = 0
  /\ limited = Undefined
  /\ requestLog = [identifier \in Identifiers |-> <<>>]

\* this.conversations.has(id)
InStore(id) == \E i \in 1..Len(stored) : stored[i] = id

\* conversation.updatedAt = new Date().toISOString() in a method of the
\* store: the conversation is now the one updated last
Touch(id) == SelectSeq(stored, LAMBDA other : other # id) \o <<id>>

\* what every step of the API service does to the rest of the state: the
\* values handed back in the last step are taken, the other programs are
\* not touched
ServiceStep ==
  /\ ~EngineUsed /\ ~HandlerUsed
  /\ observed' = Undefined
  /\ UNCHANGED <<engineVars, handlerVars>>

\* the startConversation calls in progress do not include id: its
\* conversationId has been returned to a client, or no conversation has it
NotBeingCreated(id) ==
  \A s \in 1..Len(starting) : starting[s].id # id

\* startConversation up to its first await: create() puts the new
\* Conversation object into the Map (Supabase is not configured); the model
\* creates at most max conversations
startConversationUpTo(max) ==
  /\ ServiceStep
  /\ Len(conversations) < max
  /\ conversations' = Append(conversations, NewConversation)
  /\ stored' = Append(stored, Len(conversations) + 1)
  /\ starting' = Append(starting, [id |-> Len(conversations) + 1,
                                   pc |-> "awaitCreate", error |-> ""])
  /\ returned' = Undefined
  /\ started' = Undefined
  /\ UNCHANGED frames

startConversation == startConversationUpTo(MaxConvs)

\* a step of the startConversation call s that ends at the await of a
\* method of the store: the method writes conversation and updatedAt, or
\* throws when the Map no longer has the id
StartStores(s, conversation, pc) ==
  IF InStore(starting[s].id)
    THEN /\ conversations' = [conversations EXCEPT ![starting[s].id] = conversation]
         /\ stored' = Touch(starting[s].id)
         /\ starting' = [starting EXCEPT ![s].pc = pc]
    ELSE /\ starting' = [starting EXCEPT
                           ![s].pc = "rejected",
                           ![s].error = ConversationNotFound(starting[s].id)]
         /\ UNCHANGED <<conversations, stored>>

\* startConversation from the await of create (line 116) to the await of
\* addMessage (line 119): the greeting is pushed
startConversationAddsGreeting(s) ==
  /\ s <= Len(starting)
  /\ starting[s].pc = "awaitCreate"
  /\ ServiceStep
  /\ StartStores(s, addMessage(conversations[starting[s].id], "assistant",
                               GREETING_MESSAGE),
                 "awaitGreeting")
  /\ returned' = Undefined
  /\ started' = Undefined
  /\ UNCHANGED frames

\* startConversation from the await of addMessage (line 119) to the await
\* of updateStage (line 120)
startConversationUpdatesStage(s) ==
  /\ s <= Len(starting)
  /\ starting[s].pc = "awaitGreeting"
  /\ ServiceStep
  /\ StartStores(s, updateStage(conversations[starting[s].id], "collecting"),
                 "awaitStage")
  /\ returned' = Undefined
  /\ started' = Undefined
  /\ UNCHANGED frames

\* startConversation from the await of updateStage (line 120) to its return
startConversationReturns(s) ==
  /\ s <= Len(starting)
  /\ starting[s].pc = "awaitStage"
  /\ ServiceStep
  /\ started' = Some([conversationId |-> starting[s].id,
                      resp |-> Response(GREETING_MESSAGE, "collecting",
                                        FALSE, Undefined)])
  /\ starting' = RemoveAt(starting, s)
  /\ returned' = Undefined
  /\ UNCHANGED <<conversations, stored, frames>>

\* startConversation rejects with the Error the awaited method of the
\* store threw
startConversationRejects(s) ==
  /\ s <= Len(starting)
  /\ starting[s].pc = "rejected"
  /\ ServiceStep
  /\ started' = Some([conversationId |-> starting[s].id,
                      resp |-> Thrown(starting[s].error)])
  /\ starting' = RemoveAt(starting, s)
  /\ returned' = Undefined
  /\ UNCHANGED <<conversations, stored, frames>>

\* processMessage on a conversation whose stage is 'complete'
completedResponse(conversation) ==
  Response(ALREADY_COMPLETED, "complete", TRUE, conversation.triageResult)

\* a store that keeps one Conversation object for all ids: the step writes
\* to the first conversation, whatever the conversationId of the call
AwaitsFirstConversation(k, conversation, frame) ==
  /\ conversations' = [conversations EXCEPT ![1] = conversation]
  /\ stored' = Touch(1)
  /\ frames' = [frames EXCEPT ![k] = frame]
  /\ returned' = Undefined

\* a step of the call of frame k that ends at the await of a method of the
\* store: the method writes conversation and updatedAt, or throws when the
\* Map no longer has the id, and the call then rejects when it resumes
Awaits(k, conversation, frame) ==
  IF InStore(frames[k].id)
    THEN /\ conversations' = [conversations EXCEPT ![frames[k].id] = conversation]
         /\ stored' = Touch(frames[k].id)
         /\ frames' = [frames EXCEPT ![k] = frame]
         /\ returned' = Undefined
    ELSE /\ frames' = [frames EXCEPT
                         ![k] = [frame EXCEPT
                                   !.pc = "rejected",
                                   !.error = ConversationNotFound(frames[k].id)]]
         /\ returned' = Undefined
         /\ UNCHANGED <<conversations, stored>>

\* a step of the call of frame k that ends at an await and writes nothing
Waits(k, frame) ==
  /\ frames' = [frames EXCEPT ![k] = frame]
  /\ returned' = Undefined
  /\ UNCHANGED <<conversations, stored>>

\* the last step of the call of frame k: it returns or rejects with resp
Returns(k, frame, resp) ==
  /\ returned' = Some([frame EXCEPT !.pc = "done", !.resp = resp])
  /\ frames' = RemoveAt(frames, k)
  /\ UNCHANGED <<conversations, stored>>

\* processMessage up to its first await: conversationStore.get looks the
\* conversation up in the Map (line 131)
processMessageStart(id, text) ==
  /\ ServiceStep
  /\ started' = Undefined
  /\ NotBeingCreated(id)
  /\ Len(frames) < MaxInFlight
  /\ frames' = Append(frames, [NewCall(id, text) EXCEPT
                                 !.pc = "awaitGet",
                                 !.found = InStore(id)])
  /\ returned' = Undefined
  /\ UNCHANGED <<conversations, stored, starting>>

\* the number of characters of the words text[lo..hi] joined by blanks
RECURSIVE CharactersOf(_, _, _)
CharactersOf(text, lo, hi) ==
  IF lo > hi THEN 0
  ELSE IF lo = hi THEN Len(text[lo])
  ELSE LET mid == (lo + hi) \div 2
       IN CharactersOf(text, lo, mid) + 1 + CharactersOf(text, mid + 1, hi)

\* message.length
StringLength(text) == CharactersOf(text, 1, Len(text))

\* the string of n copies of w
RECURSIVE Repeat(_, _)
Repeat(w, n) ==
  IF n = 0 THEN ""
  ELSE IF n % 2 = 1 THEN w \o Repeat(w, n - 1)
  ELSE LET half == Repeat(w, n \div 2) IN half \o half

\* the message request without the schema: every body reaches processMessage
postMessageUnvalidated(id, message) == processMessageStart(id, message)

\* POST /api/conversation/message: SendMessageRequestSchema.parse rejects an
\* empty message and one of more than 5000 characters with a ZodError (400
\* VALIDATION_ERROR in errorHandler), otherwise processMessage is called;
\* every conversationId of the model is a uuid
postMessage(id, message) ==
  IF SendMessageRequestIssues(StringLength(message)) # <<>>
    THEN /\ ServiceStep
         /\ returned' = Some([NewCall(id, message) EXCEPT
                                !.resp = ThrownZodError(
                                  SendMessageRequestIssues(StringLength(message)))])
         /\ started' = Undefined
         /\ UNCHANGED <<conversations, stored, frames, starting>>
    ELSE processMessageStart(id, message)

\* a message of 5001 characters
TextLong == <<Repeat("a", messageMaxLength + 1)>>

\* the bodies of message requests in the model: the user texts, the empty
\* message and one that is too long
RequestTexts == UserTexts \cup {<<>>, TextLong}

\* the calls of processMessage that have not stored their user message yet
CallsAtGet ==
  Cardinality({k \in 1..Len(frames) : frames[k].pc = "awaitGet"})

\* a client sends a message request at any time, also while calls for the
\* same conversation are in progress, until max user messages are stored
\* or about to be
sendMessageUpTo(max, id, message) ==
  /\ TotalTurns(Len(conversations)) + CallsAtGet < max
  /\ postMessage(id, message)

sendMessage(id, message) == sendMessageUpTo(MaxTurns, id, message)

\* processMessage from the await of get (line 131) to the await of
\* addMessage (line 147), or to its return
processMessageAddsUserMessage(k) ==
  /\ k <= Len(frames)
  /\ frames[k].pc = "awaitGet"
  /\ ServiceStep
  /\ started' = Undefined
  /\ UNCHANGED starting
  /\ IF ~frames[k].found
       THEN \* conversationStore.get(id) was undefined
            Returns(k, frames[k], Thrown("Conversation not found"))
     ELSE IF conversations[frames[k].id].stage = "complete"
       THEN Returns(k, [frames[k] EXCEPT !.stageBefore = "complete"],
                    completedResponse(conversations[frames[k].id]))
     ELSE LET conversation ==
                addMessage(conversations[frames[k].id], "user", frames[k].text)
          IN Awaits(k, conversation,
                    [frames[k] EXCEPT
                       !.pc = "awaitAddUser",
                       !.stageBefore = conversations[frames[k].id].stage,
                       !.turn = CountUser(conversation.messages)])

\* processMessage from the await of addMessage (line 147) to the await of
\* llmClient.chat (line 173) or, with a red-flag keyword, to the await of
\* updateStage in handleEmergencyTriage (line 231)
processMessageChecksRedFlags(k) ==
  /\ k <= Len(frames)
  /\ frames[k].pc = "awaitAddUser"
  /\ ServiceStep
  /\ started' = Undefined
  /\ UNCHANGED starting
  /\ LET conversation == conversations[frames[k].id]
         redFlags == checkRedFlagKeywords(frames[k].text)
         allUserMessages == JoinUser(conversation.messages, 1) \o frames[k].text
     IN IF Len(redFlags) > 0
          THEN Awaits(k, updateStage(conversation, "triaging"),
                      [frames[k] EXCEPT !.pc = "awaitEmergencyStage",
                                        !.redFlags = redFlags])
          ELSE Waits(k,
                      [frames[k] EXCEPT
                         !.pc = "awaitChat",
                         !.allUserMessages = allUserMessages,
                         !.minATS = getMinimumATSFromSymptoms(allUserMessages),
                         !.userMessageCount = CountUser(conversation.messages) + 1,
                         !.llmCalls = 1])

\* handleEmergencyTriage from the await of updateStage (line 231) to the
\* await of addMessage (line 352): the urgent message is pushed
handleEmergencyTriageAddsMessage(k) ==
  /\ k <= Len(frames)
  /\ frames[k].pc = "awaitEmergencyStage"
  /\ ServiceStep
  /\ started' = Undefined
  /\ UNCHANGED starting
  /\ Awaits(k, addMessage(conversations[frames[k].id], "assistant", urgentMessage),
            [frames[k] EXCEPT !.pc = "awaitEmergencyMessage"])

\* handleEmergencyTriage from the await of addMessage (line 352) to the
\* await of setTriageResult (line 395)
handleEmergencyTriageSetsResult(k) ==
  /\ k <= Len(frames)
  /\ frames[k].pc = "awaitEmergencyMessage"
  /\ ServiceStep
  /\ started' = Undefined
  /\ UNCHANGED starting
  /\ Awaits(k, setTriageResult(conversations[frames[k].id],
                               emergencyResult(frames[k].redFlags)),
            [frames[k] EXCEPT !.pc = "awaitEmergencyResult"])

\* handleEmergencyTriage from the await of setTriageResult (line 395) to the
\* return of processMessage
handleEmergencyTriageReturns(k) ==
  /\ k <= Len(frames)
  /\ frames[k].pc = "awaitEmergencyResult"
  /\ ServiceStep
  /\ started' = Undefined
  /\ UNCHANGED starting
  /\ Returns(k, frames[k],
             Response(urgentMessage, "complete", TRUE,
                      Some(emergencyResult(frames[k].redFlags))))

\* processMessage from the return of llmClient.chat (line 173) to the await
\* of updateCollectedData (line 184) or, without a clinicalAssessment, to
\* the await of addMessage (line 193); a rejection of llmClient.chat
\* rejects processMessage
processMessageChatReturns(k, outcome) ==
  /\ k <= Len(frames)
  /\ frames[k].pc = "awaitChat"
  /\ ServiceStep
  /\ started' = Undefined
  /\ UNCHANGED starting
  /\ IF outcome.kind = "throw"
       THEN Returns(k, [frames[k] EXCEPT !.llmFailed = TRUE],
                    Thrown(outcome.error))
     ELSE LET parsed == parseResponse(outcome)
              conversation == conversations[frames[k].id]
              frame == [frames[k] EXCEPT
                          !.message = parsed.message,
                          !.readyToTriage = parsed.readyToTriage,
                          !.redFlagsIdentified = parsed.redFlagsIdentified]
          IN IF parsed.hasAssessment
               THEN Awaits(k, updateCollectedData(conversation,
                                mergedData(conversation.collectedData, parsed)),
                           [frame EXCEPT !.pc = "awaitCollectedData"])
               ELSE Awaits(k, addMessage(conversation, "assistant", parsed.message),
                           [frame EXCEPT !.pc = "awaitAddAssistant"])

\* processMessage from the await of updateCollectedData (line 184) to the
\* await of addMessage (line 193): the assistant message is pushed
processMessageAddsAssistantMessage(k) ==
  /\ k <= Len(frames)
  /\ frames[k].pc = "awaitCollectedData"
  /\ ServiceStep
  /\ started' = Undefined
  /\ UNCHANGED starting
  /\ Awaits(k, addMessage(conversations[frames[k].id], "assistant",
                          frames[k].message),
            [frames[k] EXCEPT !.pc = "awaitAddAssistant"])

\* processMessage from the await of addMessage (line 193) to the await of
\* updateStage, at line 201 ('triaging') or at line 216
processMessageUpdatesStage(k) ==
  /\ k <= Len(frames)
  /\ frames[k].pc = "awaitAddAssistant"
  /\ ServiceStep
  /\ started' = Undefined
  /\ UNCHANGED starting
  /\ LET parsed == [readyToTriage |-> frames[k].readyToTriage,
                    redFlagsIdentified |-> frames[k].redFlagsIdentified]
     IN IF shouldTriage(parsed, frames[k].userMessageCount)
          THEN Awaits(k, updateStage(conversations[frames[k].id], "triaging"),
                      [frames[k] EXCEPT !.pc = "awaitTriagingStage"])
          ELSE Awaits(k, updateStage(conversations[frames[k].id],
                                     IF frames[k].userMessageCount >= 2
                                       THEN "clarifying" ELSE "collecting"),
                      [frames[k] EXCEPT !.pc = "awaitContinueStage"])

\* processMessage from the await of updateStage (line 216) to its return:
\* the response carries conversation.stage as it is then
processMessageReturns(k) ==
  /\ k <= Len(frames)
  /\ frames[k].pc = "awaitContinueStage"
  /\ ServiceStep
  /\ started' = Undefined
  /\ UNCHANGED starting
  /\ Returns(k, frames[k],
             Response(frames[k].message, conversations[frames[k].id].stage,
                      FALSE, Undefined))

\* processMessage from the await of updateStage (line 201) to the await of
\* get in performTriage (line 552), which looks the conversation up in the
\* Map
performTriageStart(k) ==
  /\ k <= Len(frames)
  /\ frames[k].pc = "awaitTriagingStage"
  /\ ServiceStep
  /\ started' = Undefined
  /\ UNCHANGED starting
  /\ Waits(k, [frames[k] EXCEPT !.pc = "awaitTriageGet",
                                !.foundForTriage = InStore(frames[k].id)])

\* performTriage from the await of get (line 552) to the await of
\* llmClient.chat (line 604), or to the TypeError of line 553
performTriageCallsLLM(k) ==
  /\ k <= Len(frames)
  /\ frames[k].pc = "awaitTriageGet"
  /\ ServiceStep
  /\ started' = Undefined
  /\ UNCHANGED starting
  /\ IF ~frames[k].foundForTriage
       THEN \* conversation is undefined: TypeError on .collectedData
            Returns(k, frames[k], Thrown(TypeErrorOfUndefined))
       ELSE Waits(k, [frames[k] EXCEPT !.pc = "awaitTriage", !.llmCalls = 2])

\* performTriage from the return of llmClient.chat (line 604) to the await
\* of setTriageResult (line 680); a rejection of llmClient.chat and the
\* TypeError of line 651 reject processMessage
performTriageReturns(k, outcome) ==
  /\ k <= Len(frames)
  /\ frames[k].pc = "awaitTriage"
  /\ ServiceStep
  /\ started' = Undefined
  /\ UNCHANGED starting
  /\ IF outcome.kind = "throw"
       THEN Returns(k, [frames[k] EXCEPT !.llmFailed = TRUE],
                    Thrown(outcome.error))
     ELSE LET triageData == triageDataOf(outcome, frames[k].minATS)
              finalATS == finalATSOf(triageData, frames[k].minATS)
              session == sessionResult(triageData, frames[k].minATS)
              frame == [frames[k] EXCEPT
                          !.parseFailed = (outcome.kind # "json"),
                          !.candidate = Some(candidateATS(triageData))]
          IN IF finalATS \notin ATS_GUIDELINES
               THEN \* atsGuideline is undefined: TypeError on .maxWaitTime
                    Returns(k, frame, Thrown(TypeErrorMessage))
               ELSE Awaits(k, setTriageResult(conversations[frames[k].id], session),
                           [frame EXCEPT
                              !.pc = "awaitSetResult",
                              !.candidateConfidence = triageData.confidence,
                              !.resp = Response(frames[k].message, "complete",
                                                TRUE, Some(session))])

\* performTriage from the await of setTriageResult (line 680) to its return
\* of session (line 681); processMessage is waiting for it at line 204
performTriageSessionReturns(k) ==
  /\ k <= Len(frames)
  /\ frames[k].pc = "awaitSetResult"
  /\ ServiceStep
  /\ started' = Undefined
  /\ UNCHANGED starting
  /\ Waits(k, [frames[k] EXCEPT !.pc = "awaitPerformTriage"])

\* processMessage from the await of performTriage (line 204) to its return
\* (lines 206-212): the response is built from locals, parsed.message and
\* the session performTriage returned
processMessageTriageReturns(k) ==
  /\ k <= Len(frames)
  /\ frames[k].pc = "awaitPerformTriage"
  /\ ServiceStep
  /\ started' = Undefined
  /\ UNCHANGED starting
  /\ Returns(k, frames[k], frames[k].resp)

\* processMessage rejects with the Error the awaited method of the store
\* threw
processMessageRejects(k) ==
  /\ k <= Len(frames)
  /\ frames[k].pc = "rejected"
  /\ ServiceStep
  /\ started' = Undefined
  /\ UNCHANGED starting
  /\ Returns(k, frames[k], Thrown(frames[k].error))

\* conversationStore.cleanup(maxAgeMs): the n conversations whose updatedAt
\* is more than maxAgeMs ago are deleted from the Map
cleanup(n) ==
  /\ n \in 1..Len(stored)
  /\ ServiceStep
  /\ stored' = SubSeq(stored, n + 1, Len(stored))
  /\ returned' = Undefined
  /\ started' = Undefined
  /\ UNCHANGED <<conversations, frames, starting>>

\* the steps of a call in progress that wait for nothing outside the
\* process: the awaited store method has settled
callContinues(k) ==
  \/ processMessageRejects(k)
  \/ processMessageAddsUserMessage(k)
  \/ processMessageChecksRedFlags(k)
  \/ handleEmergencyTriageAddsMessage(k)
  \/ handleEmergencyTriageSetsResult(k)
  \/ handleEmergencyTriageReturns(k)
  \/ processMessageAddsAssistantMessage(k)
  \/ processMessageUpdatesStage(k)
  \/ processMessageReturns(k)
  \/ performTriageStart(k)
  \/ performTriageCallsLLM(k)
  \/ performTriageSessionReturns(k)
  \/ processMessageTriageReturns(k)

\* the same for the startConversation calls in progress
startContinues(s) ==
  \/ startConversationRejects(s)
  \/ startConversationAddsGreeting(s)
  \/ startConversationUpdatesStage(s)
  \/ startConversationReturns(s)

\* how the fetch of the Groq API settles: it rejects, or resolves with a
\* response whose ok is false or true
FetchSettlements == {"rejected", "notOk", "ok"}

\* ATSTriageEngine.assess(presentation) up to the first await of
\* this.client.messages.create (line 661, called from line 575): with the
\* client of createGroqClient that is the await of fetch (line 516)
assessStart(presentation) ==
  /\ ~ServiceUsed
  /\ ~TriageEngineUsed /\ ~HandlerUsed
  /\ Len(assessing) < MaxInFlight
  /\ assessing' = Append(assessing, [presentation |-> presentation,
                                     pc |-> "awaitFetch",
                                     outcome |-> ATSLLMFailure])
  /\ assessment' = Undefined
  /\ UNCHANGED <<conversations, stored, frames, returned, observed, started,
                 starting, intakes, triaged, handlerVars>>

\* what assess leaves behind when it returns for the call a with the
\* outcome of the LLM call: a rejection and an unusable reply are caught by
\* callLLM
assessCompletes(a, outcome) ==
  /\ assessment' =
       LET presentation == assessing[a].presentation
           guardrailsResult == preProcess(buildRawInput(presentation), presentation)
       IN Some([presentation |-> presentation,
                \* the minimumCategory runKeywordDetection hands to
                \* runClinicalRules
                keywordFloor |->
                  runKeywordDetection(buildRawInput(presentation),
                                      presentation.age).minimumCategory,
                \* "Minimum category" of the GUARDRAILS_COMPLETE audit entry
                floor |-> guardrailsResult.minimumCategory,
                \* "LLM recommended" of the LLM_ASSESSMENT audit entry
                candidate |-> callLLM(outcome, guardrailsResult).category,
                candidateConfidence |->
                  callLLM(outcome, guardrailsResult).confidence,
                llmFailed |-> (outcome.kind = "fail"),
                clinicalAlerts |-> guardrailsResult.clinicalAlerts,
                \* safetyResult of postProcess
                safetyResult |->
                  applySafetyEnvelope(callLLM(outcome, guardrailsResult).category,
                                      guardrailsResult.minimumCategory,
                                      guardrailsResult.redFlagsDetected,
                                      guardrailsResult.clinicalAlerts),
                result |-> assess(presentation, outcome)])
  /\ assessing' = RemoveAt(assessing, a)
  /\ UNCHANGED <<conversations, stored, frames, returned, observed, started,
                 starting, intakes, triaged, handlerVars>>

\* the call a of assess from the settling of fetch (line 516) to the await
\* of response.json() (line 538), or, when fetch rejects or the response is
\* not ok (line 533), to the rejection of create; callLLM is waiting for
\* create at line 661.  outcome is what create settles with
assessFetchSettles(a, settled) ==
  /\ a <= Len(assessing)
  /\ assessing[a].pc = "awaitFetch"
  /\ assessing' = [assessing EXCEPT
                     ![a].pc = IF settled = "ok" THEN "awaitJson"
                               ELSE "awaitCreate",
                     ![a].outcome = ATSLLMFailure]
  /\ UNCHANGED <<conversations, stored, frames, returned, observed,
                 started, starting, assessment, intakes, triaged,
                 handlerVars>>

\* the call a of assess from the settling of response.json() (line 538) to
\* the return of create (lines 539-541), or to its rejection
assessCreateReturns(a, outcome) ==
  /\ a <= Len(assessing)
  /\ assessing[a].pc = "awaitJson"
  /\ assessing' = [assessing EXCEPT ![a].pc = "awaitCreate",
                                    ![a].outcome = outcome]
  /\ UNCHANGED <<conversations, stored, frames, returned, observed,
                 started, starting, assessment, intakes, triaged,
                 handlerVars>>

\* the call a of assess from the settling of this.client.messages.create
\* (line 661) to the return of callLLM: the parsed response (line 684) or
\* the fallback of the catch (lines 686-697); assess is waiting for callLLM
\* at line 575
assessCallLLMReturns(a) ==
  /\ a <= Len(assessing)
  /\ assessing[a].pc = "awaitCreate"
  /\ assessing' = [assessing EXCEPT ![a].pc = "awaitCallLLM"]
  /\ UNCHANGED <<conversations, stored, frames, returned, observed,
                 started, starting, assessment, intakes, triaged,
                 handlerVars>>

\* the call a of assess from the settling of callLLM (line 575) to its
\* return
assessReturns(a) ==
  /\ a <= Len(assessing)
  /\ assessing[a].pc = "awaitCallLLM"
  /\ assessCompletes(a, assessing[a].outcome)

\* TriageEngine.assess(intake) up to the first await of
\* this.client.messages.create (line 1051): with the client of
\* createGroqClient that is the await of fetch
TriageEngineAssessStart(rawInput) ==
  /\ ~ServiceUsed
  /\ ~ATSTriageEngineUsed /\ ~HandlerUsed
  /\ Len(intakes) < MaxInFlight
  /\ intakes' = Append(intakes, [rawInput |-> rawInput, pc |-> "awaitFetch",
                                 outcome |-> TriageEngineFailure])
  /\ triaged' = Undefined
  /\ UNCHANGED <<conversations, stored, frames, returned, observed, started,
                 starting, assessing, assessment, handlerVars>>

\* what TriageEngine.assess leaves behind when it returns or rejects for
\* the call t with the outcome of the LLM call
TriageEngineAssessCompletes(t, outcome) ==
  /\ triaged' =
       Some([rawInput |-> intakes[t].rawInput,
             \* the TriageResult parsed from the LLM response
             llm |-> outcome,
             \* the TriageResult returned; none when assess rejects
             result |-> (IF outcome.kind = "fail" THEN Undefined
                         ELSE Some(TriageEngine_assess(intakes[t].rawInput,
                                                       outcome)))])
  /\ intakes' = RemoveAt(intakes, t)
  /\ UNCHANGED <<conversations, stored, frames, returned, observed, started,
                 starting, assessing, assessment, handlerVars>>

\* the call t from the settling of fetch (line 1018) to the await of
\* response.json() (line 1039), or, when fetch rejects or the response is
\* not ok (line 1035), to the rejection of create; assess is waiting for
\* create at line 1051.  outcome is what create settles with
TriageEngineAssessFetchSettles(t, settled) ==
  /\ t <= Len(intakes)
  /\ intakes[t].pc = "awaitFetch"
  /\ intakes' = [intakes EXCEPT
                   ![t].pc = IF settled = "ok" THEN "awaitJson"
                             ELSE "awaitCreate",
                   ![t].outcome = TriageEngineFailure]
  /\ UNCHANGED <<conversations, stored, frames, returned, observed,
                 started, starting, assessing, assessment, triaged,
                 handlerVars>>

\* the call t from the settling of response.json() (line 1039) to the
\* return of create (lines 1040-1042), or to its rejection
TriageEngineAssessCreateReturns(t, outcome) ==
  /\ t <= Len(intakes)
  /\ intakes[t].pc = "awaitJson"
  /\ intakes' = [intakes EXCEPT ![t].pc = "awaitCreate",
                                ![t].outcome = outcome]
  /\ UNCHANGED <<conversations, stored, frames, returned, observed,
                 started, starting, assessing, assessment, triaged,
                 handlerVars>>

\* the call t from the settling of this.client.messages.create (line 1051)
\* to its return or rejection
TriageEngineAssessReturns(t) ==
  /\ t <= Len(intakes)
  /\ intakes[t].pc = "awaitCreate"
  /\ TriageEngineAssessCompletes(t, intakes[t].outcome)

\* getConversation(conversationId): conversationStore.get hands out the
\* stored Conversation object as it is at that moment, or undefined
getConversation(id) ==
  /\ ~EngineUsed /\ ~HandlerUsed
  /\ NotBeingCreated(id)
  /\ observed' = Some([id |-> id,
                       found |-> InStore(id),
                       conversation |-> (IF InStore(id)
                                           THEN conversations[id]
                                           ELSE NewConversation)])
  /\ returned' = Undefined
  /\ started' = Undefined
  /\ UNCHANGED <<conversations, stored, frames, starting, engineVars,
                 handlerVars>>

\* user messages pushed by the handler so far, over all its conversation
\* objects
RECURSIVE HandlerTurns(_)
HandlerTurns(n) ==
  IF n = 0 THEN 0
  ELSE CountUser(handlerObjects[n]) + HandlerTurns(n - 1)

\* conversations.get(id) of the handler: the messages of the stored object,
\* none when the Map has no entry
HandlerMessages(id) ==
  IF handlerConversations[id] = 0 THEN <<>>
  ELSE handlerObjects[handlerConversations[id]]

\* what the handler sent, with the message of the request it answers
Handled(message, response) ==
  [field \in DOMAIN response \cup {"request"} |->
     IF field = "request" THEN message ELSE response[field]]

\* the serverless handler for POST {conversationId, message}, from the
\* request to the await of fetch: the user message is pushed to the stored
\* conversation object or, when the Map has none, to a new object that is
\* not in the Map yet; without a message: 400 before anything else
handlerStart(id, message) ==
  /\ ~ServiceUsed /\ ~EngineUsed
  /\ IF message = <<>>
       THEN /\ handled' = Some(Handled(message,
                              HandlerError(400, "conversationId and message required", "")))
            /\ UNCHANGED <<handlerObjects, handlerConversations, handling>>
       ELSE /\ HandlerTurns(Len(handlerObjects)) < MaxTurns
            /\ Len(handling) < MaxInFlight
            /\ handled' = Undefined
            /\ LET user == [role |-> "user", content |-> Some(message)]
                   object == IF handlerConversations[id] = 0
                               THEN Len(handlerObjects) + 1
                               ELSE handlerConversations[id]
               IN /\ handlerObjects' =
                       IF handlerConversations[id] = 0
                         THEN Append(handlerObjects, <<user>>)
                         ELSE [handlerObjects EXCEPT ![object] = Append(@, user)]
                  /\ handling' = Append(handling, [id |-> id, message |-> message,
                                                   object |-> object,
                                                   pc |-> "awaitFetch"])
            /\ UNCHANGED handlerConversations
  /\ UNCHANGED <<conversations, stored, frames, returned, observed, started, starting, engineVars>>
  /\ UNCHANGED limiterVars

\* the handler from the settling of fetch (line 427) to the await of
\* response.text() (line 442) or response.json() (line 446); a rejection
\* of fetch is answered with 500
handlerFetchSettles(h, settled) ==
  /\ h <= Len(handling)
  /\ handling[h].pc = "awaitFetch"
  /\ IF settled = "rejected"
       THEN /\ handled' = Some(Handled(handling[h].message,
                                       HandlerError(500, "Failed to process message",
                                                    FETCH_FAILED)))
            /\ handling' = RemoveAt(handling, h)
       ELSE /\ handled' = Undefined
            /\ handling' = [handling EXCEPT
                              ![h].pc = IF settled = "ok" THEN "awaitJson"
                                        ELSE "awaitText"]
  /\ UNCHANGED <<handlerObjects, handlerConversations>>
  /\ UNCHANGED <<conversations, stored, frames, returned, observed, started, starting, engineVars>>
  /\ UNCHANGED limiterVars

\* the handler from the settling of response.text() or response.json() to
\* the response: the assistant message is pushed to the conversation object
\* of the call and conversations.set puts that object into the Map; an
\* Error thrown on the way is answered with 500
handlerReturns(h, outcome) ==
  /\ h <= Len(handling)
  /\ \/ handling[h].pc = "awaitText" /\ outcome.kind = "error"
     \/ handling[h].pc = "awaitJson" /\ outcome.kind # "error"
  /\ LET call == handling[h]
         run == handlerRun(handlerObjects[call.object], call.message, outcome)
     IN /\ handled' = Some(Handled(call.message, run.response))
        /\ IF run.messages = Undefined
             THEN UNCHANGED <<handlerObjects, handlerConversations>>
             ELSE /\ handlerObjects' =
                       [handlerObjects EXCEPT ![call.object] = run.messages[1]]
                  /\ handlerConversations' =
                       [handlerConversations EXCEPT ![call.id] = call.object]
  /\ handling' = RemoveAt(handling, h)
  /\ UNCHANGED <<conversations, stored, frames, returned, observed, started, starting, engineVars>>
  /\ UNCHANGED limiterVars

\* the presentations of the calls of assess that are made while another
\* call is in progress: a complaint alone
OverlappingPresentations ==
  {presentation \in Presentations :
     /\ presentation.age = NoNumber
     /\ ~presentation.hasVitals
     /\ presentation.symptoms = <<>>
     /\ presentation.chiefComplaint \in {TextChest, TextGasping}}

\* a caller of the triage-engine package, with any presentation when no
\* call is in progress
assessCalled ==
  /\ ~ServiceUsed
  /\ \E presentation \in Presentations :
       /\ \/ assessing = <<>>
          \/ /\ presentation \in OverlappingPresentations
             /\ \A a \in 1..Len(assessing) :
                  assessing[a].presentation \in OverlappingPresentations
       /\ assessStart(presentation)

\* the request of a call of assess to the LLM provider settles
assessFetched ==
  /\ assessing # <<>>
  /\ \E a \in 1..MaxInFlight : \E settled \in FetchSettlements :
       assessFetchSettles(a, settled)

\* the LLM provider answers a call of assess, in any order
assessAnswered ==
  /\ assessing # <<>>
  /\ \E a \in 1..MaxInFlight : \E outcome \in ATSLLMOutcomes :
       assessCreateReturns(a, outcome)

\* the steps of a call of assess that wait for nothing outside the
\* process
assessContinues ==
  /\ assessing # <<>>
  /\ \E a \in 1..MaxInFlight :
       \/ assessCallLLMReturns(a)
       \/ assessReturns(a)

\* a caller of the legacy engine, with any intake text
TriageEngineAssessCalled ==
  /\ ~ServiceUsed
  /\ \E rawInput \in IntakeTexts : TriageEngineAssessStart(rawInput)

\* the request of a call of the legacy engine to the LLM provider settles
TriageEngineAssessFetched ==
  /\ intakes # <<>>
  /\ \E t \in 1..MaxInFlight : \E settled \in FetchSettlements :
       TriageEngineAssessFetchSettles(t, settled)

\* the LLM provider answers a call of the legacy engine, in any order
TriageEngineAssessAnswered ==
  /\ intakes # <<>>
  /\ \E t \in 1..MaxInFlight : \E outcome \in TriageEngineOutcomes :
       TriageEngineAssessCreateReturns(t, outcome)

\* the step of a call of the legacy engine that waits for nothing outside
\* the process
TriageEngineAssessContinues ==
  /\ intakes # <<>>
  /\ \E t \in 1..MaxInFlight : TriageEngineAssessReturns(t)

\* a client of the serverless handler sends a request at any time
handlerRequest ==
  /\ ~ServiceUsed
  /\ \E id \in ConvIds : \E message \in HandlerTexts : handlerStart(id, message)

Next ==
  \/ startConversation
  \/ \E s \in 1..MaxConvs : startContinues(s)
  \/ \E id \in ConvIds : \E message \in RequestTexts : sendMessage(id, message)
  \/ \E k \in 1..MaxInFlight : callContinues(k)
  \/ \E k \in 1..MaxInFlight : \E outcome \in ChatOutcomes :
       processMessageChatReturns(k, outcome)
  \/ \E k \in 1..MaxInFlight : \E outcome \in TriageOutcomes :
       performTriageReturns(k, outcome)
  \/ \E id \in ConvIds : getConversation(id)
  \/ \E n \in 1..MaxConvs : cleanup(n)
  \/ assessCalled
  \/ assessFetched
  \/ assessAnswered
  \/ assessContinues
  \/ TriageEngineAssessCalled
  \/ TriageEngineAssessFetched
  \/ TriageEngineAssessAnswered
  \/ TriageEngineAssessContinues
  \/ handlerRequest
  \/ \E h \in 1..MaxInFlight : \E settled \in FetchSettlements :
       handlerFetchSettles(h, settled)
  \/ \E h \in 1..MaxInFlight : \E outcome \in HandlerOutcomes :
       handlerReturns(h, outcome)

Spec == Init /\ [][Next]_vars

\* requests answered by the rate limiter so far
TotalRequests ==
  LET RECURSIVE Sum(_)
      Sum(S) == IF S = {} THEN 0
                ELSE LET identifier == CHOOSE x \in S : TRUE
                     IN Len(requestLog[identifier]) + Sum(S \ {identifier})
  IN Sum(Identifiers)

\* checkRateLimit(req, res, type) for a request of address ip, with Redis not
\* configured (rateLimiters[type] is null)
checkRateLimit(ip, type) ==
  /\ TotalRequests < MaxRequests
  /\ LET identifier == Identifier(ip, type)
         config == limits[type]
         result == checkInMemoryLimit(inMemoryStore, identifier,
                                      config.limit, config.windowMs, now)
     IN /\ inMemoryStore' = result.store
        /\ limited' = Some(RateLimitAnswer(identifier, type, result, now))
        /\ requestLog' = [requestLog EXCEPT ![identifier] =
                            Append(@, [at |-> now, allowed |-> result.success])]
  /\ UNCHANGED <<conversations, stored, frames, returned, observed, started, starting,
                 engineVars, handlerObjects, handlerConversations,
                 handling, handled, now>>

\* the setInterval callback of rate-limiter.ts: it deletes the records
\* whose window is over
cleanExpired ==
  /\ \E identifier \in Identifiers :
       /\ inMemoryStore[identifier] # Undefined
       /\ inMemoryStore[identifier][1].resetAt < now
  /\ inMemoryStore' =
       [identifier \in Identifiers |->
          IF /\ inMemoryStore[identifier] # Undefined
             /\ inMemoryStore[identifier][1].resetAt < now
            THEN Undefined ELSE inMemoryStore[identifier]]
  /\ UNCHANGED <<conversations, stored, frames, returned, observed, started, starting,
                 engineVars, handlerObjects, handlerConversations,
                 handling, handled,
                 now, limited, requestLog>>

\* time passes between two requests
clockAdvances ==
  /\ now < MaxClockSteps * ClockStepMs
  /\ now' = now + ClockStepMs
  /\ UNCHANGED <<conversations, stored, frames, returned, observed, started, starting,
                 engineVars, handlerObjects, handlerConversations,
                 handling, handled,
                 inMemoryStore, limited, requestLog>>

\* The rate limiter of the serverless functions, with the in-memory store.
NextLimiter ==
  \/ \E ip \in ClientIPs : \E type \in RequestTypes : checkRateLimit(ip, type)
  \/ cleanExpired
  \/ clockAdvances

SpecLimiter == Init /\ [][NextLimiter]_vars

\* The service used by a client that makes its next request after the
\* response to the previous one.
startConversationSerial ==
  /\ frames = <<>>
  /\ startConversation

processMessageSerial(id, message) ==
  /\ frames = <<>>
  /\ starting = <<>>
  /\ TotalTurns(Len(conversations)) < MaxSerialTurns
  /\ postMessage(id, message)

NextSerial ==
  \/ startConversationSerial
  \/ \E s \in 1..MaxConvs : startContinues(s)
  \/ \E id \in ConvIds : \E message \in RequestTexts :
       processMessageSerial(id, message)
  \/ \E k \in 1..MaxInFlight : callContinues(k)
  \/ \E k \in 1..MaxInFlight : \E outcome \in ChatOutcomes :
       processMessageChatReturns(k, outcome)
  \/ \E k \in 1..MaxInFlight : \E outcome \in TriageOutcomes :
       performTriageReturns(k, outcome)
  \/ \E n \in 1..MaxConvs : cleanup(n)

SpecSerial == Init /\ [][NextSerial]_vars

\* The same client, with every awaited promise settling: those of the
\* store methods resolve, those of the LLM provider (lines 173 and 604)
\* resolve or reject, and the continuation of the call then runs.
SpecSerialLive ==
  /\ SpecSerial
  /\ WF_vars(\E s \in 1..MaxConvs : startContinues(s))
  /\ WF_vars(\E k \in 1..MaxInFlight : callContinues(k))
  /\ WF_vars(\E k \in 1..MaxInFlight : \E outcome \in ChatOutcomes :
               processMessageChatReturns(k, outcome))
  /\ WF_vars(\E k \in 1..MaxInFlight : \E outcome \in TriageOutcomes :
               performTriageReturns(k, outcome))

\* The triage-engine package alone: calls of ATSTriageEngine.assess or of
\* TriageEngine.assess.
NextEngine ==
  \/ assessCalled
  \/ assessFetched
  \/ assessAnswered
  \/ assessContinues
  \/ TriageEngineAssessCalled
  \/ TriageEngineAssessFetched
  \/ TriageEngineAssessAnswered
  \/ TriageEngineAssessContinues

SpecEngine == Init /\ [][NextEngine]_vars

\* The assessments of both programs: the service used by the client of
\* SpecSerial, or calls of the triage-engine package.
NextAssessments ==
  \/ NextSerial
  \/ NextEngine

SpecAssessments == Init /\ [][NextAssessments]_vars

\* The service used by clients that send message requests for one
\* conversation at any time, so that the calls interleave at every await,
\* while cleanup may run between any two steps.
\* The texts: without red flag, with a red flag, empty, too long.  The LLM
\* replies: a rejection, a clinicalAssessment without readyToTriage,
\* readyToTriage; for the triage call a rejection and the category 5.
InterleavedTexts == {TextHeadache, TextChest, <<>>, TextLong}

InterleavedChatOutcomes ==
  {ChatRejection(LLM_API_ERROR),
   ChatReply("json", <<"LLM_REPLY">>, TRUE, 0, FALSE),
   ChatReply("json", <<"LLM_REPLY">>, FALSE, 0, TRUE)}

InterleavedTriageOutcomes ==
  {outcome \in TriageOutcomes :
     \/ outcome.kind = "throw" /\ outcome.error = LLM_API_ERROR
     \/ outcome.kind = "json" /\ outcome.atsCategory = 5}

NextInterleaved ==
  \/ startConversation
  \/ \E s \in 1..MaxConvs : startContinues(s)
  \/ \E id \in ConvIds : \E message \in InterleavedTexts :
       sendMessage(id, message)
  \/ \E k \in 1..MaxInFlight : callContinues(k)
  \/ \E k \in 1..MaxInFlight : \E outcome \in InterleavedChatOutcomes :
       processMessageChatReturns(k, outcome)
  \/ \E k \in 1..MaxInFlight : \E outcome \in InterleavedTriageOutcomes :
       performTriageReturns(k, outcome)
  \/ \E n \in 1..MaxConvs : cleanup(n)

SpecInterleaved == Init /\ [][NextInterleaved]_vars

\* The clients of SpecInterleaved with one more message request: a call
\* that is sent after two calls have stored their user messages.
NextLaterCalls ==
  \/ startConversation
  \/ \E s \in 1..MaxConvs : startContinues(s)
  \/ \E id \in ConvIds : \E message \in InterleavedTexts :
       sendMessageUpTo(MaxLaterTurns, id, message)
  \/ \E k \in 1..MaxInFlight : callContinues(k)
  \/ \E k \in 1..MaxInFlight : \E outcome \in InterleavedChatOutcomes :
       processMessageChatReturns(k, outcome)
  \/ \E k \in 1..MaxInFlight : \E outcome \in InterleavedTriageOutcomes :
       performTriageReturns(k, outcome)
  \/ \E n \in 1..MaxConvs : cleanup(n)

SpecLaterCalls == Init /\ [][NextLaterCalls]_vars

\* The service used by the clients of two conversations, whose calls
\* interleave in any way, while cleanup may run between any two steps.
IsolatedIds == 1..MaxIsolatedConvs

IsolatedTexts == {TextHeadache, TextChest}

\* the LLM replies of SpecIsolated: a rejection, a clinicalAssessment
\* without readyToTriage, readyToTriage; for the triage call the category 5
IsolatedChatOutcomes ==
  {ChatRejection(LLM_API_ERROR),
   ChatReply("json", <<"LLM_REPLY">>, TRUE, 0, FALSE),
   ChatReply("json", <<"LLM_REPLY">>, FALSE, 0, TRUE)}

IsolatedTriageOutcomes ==
  {outcome \in TriageOutcomes :
     outcome.kind = "json" /\ outcome.atsCategory = 5}

\* a client that waits for the reply of POST /start before it sends the
\* next one; the calls of processMessage go on meanwhile
startConversationInTurn ==
  /\ starting = <<>>
  /\ startConversationUpTo(MaxIsolatedConvs)

NextIsolated ==
  \/ startConversationInTurn
  \/ \E s \in 1..MaxIsolatedConvs : startContinues(s)
  \/ \E id \in IsolatedIds : \E message \in IsolatedTexts : sendMessage(id, message)
  \/ \E k \in 1..MaxInFlight : callContinues(k)
  \/ \E k \in 1..MaxInFlight : \E outcome \in IsolatedChatOutcomes :
       processMessageChatReturns(k, outcome)
  \/ \E k \in 1..MaxInFlight : \E outcome \in IsolatedTriageOutcomes :
       performTriageReturns(k, outcome)
  \/ \E n \in 1..MaxIsolatedConvs : cleanup(n)

SpecIsolated == Init /\ [][NextIsolated]_vars

\* ------------------------------------------------------------------ claims
\* row k of keywordPatterns matches the text
MatchesRow(text, k) == RegexTest(keywordPatterns[k].pattern, toLowerCase(text))

MatchesAnyRow(text) == \E k \in 1..Len(keywordPatterns) : MatchesRow(text, k)

\* the user texts of the model that match a row of keywordPatterns
RedFlagTexts == {text \in UserTexts : MatchesAnyRow(text)}

\* the category handleEmergencyTriage attaches to row k
RowATS(k) ==
  IF flagActionsAts(keywordPatterns[k].flag) = 0 THEN 2
  ELSE flagActionsAts(keywordPatterns[k].flag)

\* red flag k of RED_FLAG_INDICATORS applies to the raw input
MatchesFlag(rawInput, age, k) ==
  /\ RED_FLAG_INDICATORS[k].ageGated => (age # NoNumber /\ age < 3)
  /\ \E j \in 1..Len(RED_FLAG_INDICATORS[k].keywords) :
       Includes(toLowerCase(rawInput), RED_FLAG_INDICATORS[k].keywords[j])

\* the more urgent of two categories, NullCategory standing for no floor
MostUrgent(candidate, floor) ==
  IF floor = NullCategory THEN candidate
  ELSE IF IndexOf(floor) < IndexOf(candidate) THEN floor ELSE candidate

\* the call c found a conversation that was not complete and finalized it
Finalized(c) ==
  c.resp.status = "ok" /\ c.resp.isComplete /\ c.stageBefore # "complete"

\* a step in which the call of frame k resumes after an await and goes on
\* to its next await
GoesOn(k) ==
  /\ k <= Len(frames)
  /\ Len(frames') = Len(frames)
  /\ frames'[k] # frames[k]
  /\ frames'[k].id = frames[k].id
  /\ frames'[k].text = frames[k].text

\* a step in which the call of frame k resumes after an await and returns
\* or rejects
ReturnsFrom(k) ==
  /\ k <= Len(frames)
  /\ frames' = RemoveAt(frames, k)
  /\ returned' # Undefined
  /\ returned'[1].id = frames[k].id
  /\ returned'[1].text = frames[k].text
  /\ returned'[1].turn = frames[k].turn

\* the step is a step of the call of frame k
StepOf(k) == GoesOn(k) \/ ReturnsFrom(k)

\* cleanup deleted the conversation of the call c while the call was in
\* progress, and the store method the call ran next rejected it
RemovedMeanwhile(c) ==
  /\ ~InStore(c.id)
  /\ c.resp = Thrown(ConversationNotFound(c.id))

\* C1 -- Monotonic floor: every assessment that is produced (by
\* ATSTriageEngine.assess, by the red-flag path and by the conversational
\* path of ConversationEngine) is at least as urgent as the minimum category
\* of every red-flag pattern its input matched, whatever the LLM proposed.
\* The input of assess is its raw input; that of the red-flag path is the
\* user message, matched against keywordPatterns; the conversational path
\* takes its floor from the keywords of CLINICAL_CONDITIONS in the user
\* messages of the call.
C1_MonotonicFloor ==
  /\ assessment # Undefined =>
       LET a == assessment[1]
       IN \A k \in 1..Len(RED_FLAG_INDICATORS) :
            MatchesFlag(buildRawInput(a.presentation), a.presentation.age, k)
              => IndexOf(a.result.category)
                   <= IndexOf(RED_FLAG_INDICATORS[k].minCategory)
  /\ (returned # Undefined /\ Finalized(returned[1])) =>
       LET c == returned[1]
           final == c.resp.triageResult[1].atsCategory
       IN /\ \A k \in 1..Len(keywordPatterns) :
               MatchesRow(c.text, k) => final <= RowATS(k)
          /\ \A cond \in CLINICAL_CONDITIONS :
               (\E kw \in cond.keywords :
                  Includes(toLowerCase(c.allUserMessages), kw))
                 => final <= cond.atsCategory

\* an assessment whose input matched a red flag of minimum category ATS1
\* while the LLM proposed ATS5
C1_Witness ==
  /\ assessment # Undefined
  /\ MatchesFlag(buildRawInput(assessment[1].presentation),
                 assessment[1].presentation.age, 2)
  /\ assessment[1].candidate = "ATS5"
  /\ assessment[1].result.category = "ATS1"

\* C2 -- Fusion correctness: the final category of every assessment is the
\* more urgent of the candidate's category and the floor, and it is the
\* candidate's category when there is no floor.  For ConversationEngine the
\* floor is minATSFromKeywords (5: nothing matched) and the candidate is a
\* category of the fixed domain 1..5; on the red-flag path, which has no
\* candidate, the final category is the floor.
C2_FusionCorrectness ==
  /\ assessment # Undefined =>
       assessment[1].result.category
         = MostUrgent(assessment[1].candidate, assessment[1].floor)
  /\ (returned # Undefined /\ Finalized(returned[1])) =>
       LET c == returned[1]
           final == c.resp.triageResult[1].atsCategory
       IN /\ (c.candidate # Undefined /\ c.candidate[1] \in 1..5) =>
               /\ c.minATS < c.candidate[1] => final = c.minATS
               /\ c.minATS >= c.candidate[1] => final = c.candidate[1]
          /\ c.candidate = Undefined =>
               /\ \E k \in 1..Len(keywordPatterns) :
                    MatchesRow(c.text, k) /\ final = RowATS(k)
               /\ \A k \in 1..Len(keywordPatterns) :
                    MatchesRow(c.text, k) => final <= RowATS(k)

\* a conversational assessment with floor 2 whose candidate was 5
C2_Witness ==
  /\ returned # Undefined
  /\ Finalized(returned[1])
  /\ returned[1].candidate = Some(5)
  /\ returned[1].minATS = 2
  /\ returned[1].resp.triageResult[1].atsCategory = 2

\* C3 -- Idempotence of completion: once the stage of a conversation is
\* complete, every later processMessage call on it returns the stored final
\* assessment, whatever its text, appends no message and changes nothing in
\* the store, runs no red-flag detection and starts no LLM call.
\* setTriageResult alone sets the stage to complete and it stores the
\* result with it, which no method removes: the conversations whose stage
\* was complete at some time are those with a stored triageResult.  A call
\* is later when it starts then; it reads the stage when it resumes from
\* the await of conversationStore.get (line 136).
C3_IdempotentOnceComplete ==
  [][\A k \in 1..Len(frames) :
       (/\ frames[k].pc = "awaitGet"
        /\ frames[k].found
        /\ conversations[frames[k].id].triageResult # Undefined
        /\ StepOf(k))
       => /\ ReturnsFrom(k)
          /\ conversations' = conversations
          /\ returned'[1].resp
               = Response(ALREADY_COMPLETED, "complete", TRUE,
                          conversations[frames[k].id].triageResult)
          /\ returned'[1].redFlags = <<>>
          /\ returned'[1].llmCalls = 0]_vars

\* C4 -- the final assessment is set exactly once: once stored, its value
\* never changes, under any interleaving of processMessage calls.
C4_FinalAssessmentSetOnce ==
  [][\A id \in ConvIds :
       (id <= Len(conversations) /\ conversations[id].triageResult # Undefined)
       => conversations'[id].triageResult = conversations[id].triageResult]_vars

\* C5 -- complete is terminal: once the stage of a conversation is
\* complete, no step sets it to another value.
C5_CompleteIsTerminal ==
  [][\A id \in ConvIds :
       (id <= Len(conversations) /\ conversations[id].stage = "complete")
       => conversations'[id].stage = "complete"]_vars

\* C6 -- a user message that matches a red-flag pattern, sent to a
\* conversation that is not complete, is finalized by the same call: the
\* call never awaits the LLM, it stores the final assessment of its red
\* flags, which sets the stage to complete, and it returns isComplete with
\* stage complete and that assessment; the chest pain text gets ATS 2.
\* The call ends otherwise only when cleanup has deleted the conversation
\* from the store while the call was in progress: it is then rejected by
\* the store.
C6_RedFlagFinalizesAtOnce ==
  [][\A k \in 1..Len(frames) :
       (/\ frames[k].text \in RedFlagTexts
        /\ frames[k].found
        /\ frames[k].pc = "awaitGet" => conversations[frames[k].id].stage # "complete"
        /\ StepOf(k))
       => /\ GoesOn(k) =>
               /\ frames'[k].llmCalls = 0
               /\ frames'[k].pc \notin {"awaitChat", "awaitTriage"}
               /\ conversations'[frames[k].id].triageResult
                    # conversations[frames[k].id].triageResult
                    => /\ conversations'[frames[k].id].stage = "complete"
                       /\ conversations'[frames[k].id].triageResult
                            = Some(emergencyResult(
                                     checkRedFlagKeywords(frames[k].text)))
          /\ (ReturnsFrom(k) /\ frames[k].pc = "rejected") =>
               /\ ~InStore(frames[k].id)
               /\ returned'[1].resp
                    = Thrown(ConversationNotFound(frames[k].id))
               /\ returned'[1].llmCalls = 0
          /\ (ReturnsFrom(k) /\ frames[k].pc # "rejected") =>
               /\ conversations[frames[k].id].triageResult # Undefined
               /\ returned'[1].llmCalls = 0
               /\ returned'[1].resp.status = "ok"
               /\ returned'[1].resp.isComplete
               /\ returned'[1].resp.stage = "complete"
               /\ returned'[1].resp.triageResult
                    = Some(emergencyResult(checkRedFlagKeywords(frames[k].text)))
               /\ returned'[1].text = TextChest
                    => returned'[1].resp.triageResult[1].atsCategory = 2]_vars

\* the chest pain text finalized on the first user turn with ATS 2
C6_Witness ==
  /\ returned # Undefined
  /\ returned[1].text = TextChest
  /\ returned[1].turn = 1
  /\ returned[1].stageBefore = "collecting"
  /\ returned[1].llmCalls = 0
  /\ returned[1].resp.isComplete
  /\ returned[1].resp.triageResult[1].atsCategory = 2
  /\ conversations[returned[1].id].stage = "complete"

\* the call c took the conversational path and returned a response
Conversational(c) ==
  /\ c.redFlags = <<>>
  /\ c.llmCalls >= 1
  /\ c.resp.status = "ok"

\* every user message of the history but the last is followed by an
\* assistant message: the earlier turns were answered
EarlierTurnsAnswered(messages) ==
  \A i \in 1..Len(messages) :
    (messages[i].role = "user" /\ CountUser(SubSeq(messages, 1, i))
                                   < CountUser(messages))
      => (i < Len(messages) /\ messages[i + 1].role = "assistant")

\* C7 -- Forced progression: with no red flag and an LLM that never sets
\* readyToTriage, the responses to user turns 1, 2 and 3 are not complete
\* and the response to user turn 4 is complete.
C7_ForcedOnFourthTurn ==
  (/\ returned # Undefined
   /\ Conversational(returned[1])
   /\ EarlierTurnsAnswered(conversations[returned[1].id].messages)
   /\ ~returned[1].readyToTriage
   /\ returned[1].redFlagsIdentified = 0) =>
    /\ returned[1].turn <= 3 => ~returned[1].resp.isComplete
    /\ returned[1].turn = 4 =>
         returned[1].resp.isComplete /\ returned[1].resp.stage = "complete"

\* C8 -- on a user turn without red-flag match the conversation is
\* finalized exactly when the LLM sets readyToTriage, or the number of user
\* turns so far is at least 4, or a critical alert exists (here: the LLM
\* reports red flags); otherwise the turn returns a message and no
\* assessment.
C8_FinalizeIff ==
  (/\ returned # Undefined
   /\ Conversational(returned[1])
   /\ EarlierTurnsAnswered(conversations[returned[1].id].messages)) =>
    /\ returned[1].resp.isComplete
         <=> \/ returned[1].readyToTriage
             \/ returned[1].turn >= 4
             \/ returned[1].redFlagsIdentified > 0
    /\ ~returned[1].resp.isComplete => returned[1].resp.triageResult = Undefined

\* C9 -- when an LLM call of processMessage fails and no floor exists, the
\* call still returns a normal response with the generic clarifying prompt.
C9_ClarifyingPromptOnLLMFailure ==
  (/\ returned # Undefined
   /\ returned[1].llmFailed
   /\ returned[1].redFlags = <<>>
   /\ returned[1].minATS = 5) =>
    /\ returned[1].resp.status = "ok"
    /\ returned[1].resp.message = CLARIFY_PROMPT
    /\ ~returned[1].resp.isComplete

\* C10 -- when an LLM call fails during a turn with no floor, the stage of
\* the conversation after the call is the stage before the call (it is not
\* left at triaging).
C10_StageKeptOnLLMFailure ==
  (/\ returned # Undefined
   /\ returned[1].llmFailed
   /\ returned[1].redFlags = <<>>
   /\ returned[1].minATS = 5)
  => conversations[returned[1].id].stage = returned[1].stageBefore

\* C11 -- when the LLM output cannot be parsed, the fallback candidate is
\* the floor when a floor exists and ATS4 when none exists, it has a low
\* fixed confidence, and the assessment completes without throwing: for
\* ATSTriageEngine.assess (callLLM) and for performTriage, whose floor is
\* minATSFromKeywords (5: no floor).  performTriage is taken while its
\* conversation is in the store: setTriageResult rejects the call when
\* cleanup has deleted the conversation during the LLM call.
C11_FallbackNeverBelowFloor ==
  /\ (assessment # Undefined /\ assessment[1].llmFailed) =>
       /\ assessment[1].candidate
            = (IF assessment[1].floor # NullCategory
                 THEN assessment[1].floor ELSE "ATS4")
       /\ assessment[1].result.category = assessment[1].candidate
       /\ assessment[1].result.confidence = 50
  /\ (returned # Undefined /\ returned[1].parseFailed) =>
       LET c == returned[1]
           fallback == IF c.minATS < 5 THEN c.minATS ELSE 4
       IN /\ c.candidate = Some(fallback)
          /\ c.resp.status # "ok" => RemovedMeanwhile(c)
  /\ (/\ returned # Undefined
      /\ returned[1].parseFailed
      /\ ~RemovedMeanwhile(returned[1])) =>
       LET c == returned[1]
           fallback == IF c.minATS < 5 THEN c.minATS ELSE 4
       IN /\ c.resp.status = "ok"
          /\ c.resp.isComplete
          /\ c.resp.triageResult # Undefined
          /\ c.resp.triageResult[1].atsCategory = fallback
          /\ c.resp.triageResult[1].confidence = 60

\* an unparsable triage reply with floor 2: the assessment is ATS 2
C11_Witness ==
  /\ returned # Undefined
  /\ returned[1].parseFailed
  /\ returned[1].minATS = 2
  /\ returned[1].resp.isComplete
  /\ returned[1].resp.triageResult[1].atsCategory = 2
  /\ returned[1].resp.triageResult[1].confidence = 60

\* the position of the n-th user message in messages
UserIndex(messages, n) ==
  CHOOSE i \in 1..Len(messages) :
    messages[i].role = "user" /\ CountUser(SubSeq(messages, 1, i)) = n

\* C12 -- concurrent processMessage calls on one conversation behave as if
\* run one after the other: when a call has returned its response, its
\* user message is immediately followed in the history by an assistant
\* reply (no other call's message stands between them).
C12_CallsAreSerialized ==
  (returned # Undefined /\ Conversational(returned[1])) =>
    LET c == returned[1]
        messages == conversations[c.id].messages
        i == UserIndex(messages, c.turn)
    IN /\ i < Len(messages)
       /\ messages[i + 1].role = "assistant"

\* C13 -- a reader never observes a partially applied turn: the
\* conversation getConversation returns does not end with a user message
\* that has no assistant reply, and is not in the transient stage triaging.
C13_NoPartialTurnVisible ==
  (observed # Undefined /\ observed[1].found) =>
    LET conversation == observed[1].conversation
    IN /\ conversation.stage # "triaging"
       /\ conversation.messages[Len(conversation.messages)].role # "user"

\* the minimum categories of the red flags that apply to presentation p
FlagFloors(p) ==
  {RED_FLAG_INDICATORS[k].minCategory :
     k \in {j \in 1..Len(RED_FLAG_INDICATORS) :
              MatchesFlag(buildRawInput(p), p.age, j)}}

\* the escalation targets of the clinical rules that fire for p
RuleTargets(p) ==
  {ClinicalSteps(p)[n][2] :
     n \in {m \in 1..Len(ClinicalSteps(p)) :
              /\ ClinicalSteps(p)[m] # <<>>
              /\ ClinicalSteps(p)[m][2] # NullCategory}}

\* the most urgent category of a set, NullCategory for the empty set
MostUrgentOf(S) ==
  IF S = {} THEN NullCategory
  ELSE categoryOrder[MathMin({IndexOf(c) : c \in S})]

\* C14 -- the floor of an assessment is the most urgent minimum category
\* among the red flags that matched and the clinical rules that fired, and
\* there is no floor when nothing matched and no rule fired.  On the
\* red-flag path of ConversationEngine the floor is the lowest category of
\* the matching rows of keywordPatterns: 'no pulse not breathing' gives 1.
\* A red-flag call has no assessment only when cleanup deleted its
\* conversation from the store meanwhile.
C14_FloorIsMostUrgent ==
  /\ assessment # Undefined =>
       assessment[1].floor
         = MostUrgentOf(FlagFloors(assessment[1].presentation)
                          \cup RuleTargets(assessment[1].presentation))
  /\ (returned # Undefined /\ returned[1].redFlags # <<>>
        /\ returned[1].resp.triageResult = Undefined)
       => RemovedMeanwhile(returned[1])
  /\ (returned # Undefined /\ returned[1].redFlags # <<>>
        /\ ~RemovedMeanwhile(returned[1])) =>
       LET c == returned[1]
       IN /\ c.resp.triageResult # Undefined
          /\ c.resp.triageResult[1].atsCategory
               = MathMin({RowATS(k) : k \in {j \in 1..Len(keywordPatterns) :
                                                 MatchesRow(c.text, j)}})
          /\ c.text = TextArrest => c.resp.triageResult[1].atsCategory = 1

\* a presentation with two red flags (ATS2 and ATS3) and a clinical rule
\* that fires with target ATS1: the floor is ATS1
C14_Witness ==
  /\ assessment # Undefined
  /\ FlagFloors(assessment[1].presentation) = {"ATS2", "ATS3"}
  /\ "ATS1" \in RuleTargets(assessment[1].presentation)
  /\ assessment[1].floor = "ATS1"

\* C15 -- the clinical rules only tighten: the floor runClinicalRules
\* returns is never less urgent than the floor F it receives from the
\* keyword detection, and it is the most urgent of F and the targets of
\* all rules that fire (an expression that does not depend on the order of
\* the rules).
C15_ClinicalRulesOnlyTighten ==
  assessment # Undefined =>
    LET a == assessment[1]
        F == a.keywordFloor
    IN /\ F # NullCategory =>
            /\ a.floor # NullCategory
            /\ IndexOf(a.floor) <= IndexOf(F)
       /\ a.floor = MostUrgentOf((IF F = NullCategory THEN {} ELSE {F})
                                   \cup RuleTargets(a.presentation))

\* the keyword detection hands over ATS1 and two rules fire with the less
\* urgent targets ATS2 and ATS3: the floor stays ATS1
C15_Witness ==
  /\ assessment # Undefined
  /\ assessment[1].keywordFloor = "ATS1"
  /\ RuleTargets(assessment[1].presentation) = {"ATS2", "ATS3"}
  /\ assessment[1].floor = "ATS1"

\* C16 -- every category of a final assessment is one of the five fixed
\* categories, whatever the LLM put in its category field: for the results
\* ConversationEngine stores, for those ATSTriageEngine.assess returns and
\* for those the serverless handler returns.
C16_CategoryInFixedSet ==
  /\ \A id \in 1..Len(conversations) :
       conversations[id].triageResult # Undefined
         => conversations[id].triageResult[1].atsCategory \in 1..5
  /\ assessment # Undefined => assessment[1].result.category \in ATSCategory
  /\ (handled # Undefined /\ handled[1].triageResult # Undefined)
       => handled[1].triageResult[1].atsCategory \in 1..5

\* C17 -- a message for a conversation id that was never created fails
\* with the error 'Conversation not found' and neither creates a
\* conversation nor modifies one: for ConversationEngine.processMessage and
\* for the serverless handler (whose Map holds no conversation for the id).
C17_UnknownIdIsNotFound ==
  [][/\ \A k \in 1..Len(frames) :
          (~frames[k].found /\ StepOf(k))
          => /\ ReturnsFrom(k)
             /\ returned'[1].resp = Thrown("Conversation not found")
             /\ conversations' = conversations
     /\ \A id \in ConvIds :
          HandlerMessages(id) = <<>> => HandlerMessages(id)' = <<>>]_vars

\* C18 -- a message request with an empty message is rejected with a
\* validation error before the red-flag detection, the LLM and any store
\* mutation: no conversation changes, no call of processMessage is started
\* for it and none awaits the LLM with it.
C18_EmptyMessageRejected ==
  [][/\ \A k \in 1..Len(frames') : frames'[k].text # <<>>
     /\ (returned' # Undefined /\ returned'[1].text = <<>>)
          => /\ returned'[1].resp = ThrownZodError(<<TooSmall>>)
             /\ errorHandler(returned'[1].resp, TRUE).status = 400
             /\ returned'[1].redFlags = <<>>
             /\ returned'[1].llmCalls = 0
             /\ conversations' = conversations
             /\ frames' = frames]_vars

\* an empty message was rejected in a conversation that has had a turn
C18_Witness ==
  /\ returned # Undefined
  /\ returned[1].text = <<>>
  /\ returned[1].resp.error = "VALIDATION_ERROR"
  /\ returned[1].id <= Len(conversations)
  /\ Len(conversations[returned[1].id].messages) >= 3
  /\ conversations[returned[1].id].stage = "clarifying"

\* C19 -- after a user turn that does not finalize, the stage is collecting
\* while fewer than 2 user turns have occurred and clarifying from the
\* second user turn on, in the response and in the store.
C19_StageAfterTurn ==
  (/\ returned # Undefined
   /\ Conversational(returned[1])
   /\ ~returned[1].resp.isComplete) =>
    LET expected == IF returned[1].turn < 2 THEN "collecting" ELSE "clarifying"
    IN /\ returned[1].resp.stage = expected
       /\ conversations[returned[1].id].stage = expected

\* no element occurs twice in the sequence
NoDuplicates(seq) ==
  \A i \in 1..Len(seq) : \A j \in 1..Len(seq) : seq[i] = seq[j] => i = j

\* C20 -- in the result of one red-flag detection each condition appears
\* at most once: the flag ids checkRedFlags returns to assess are distinct,
\* and so are the flags checkRedFlagKeywords returns to a processMessage
\* call that answers with a response.
C20_FlagsAreDeduplicated ==
  /\ assessment # Undefined =>
       NoDuplicates([i \in 1..Len(assessment[1].result.redFlagsDetected) |->
                       assessment[1].result.redFlagsDetected[i].id])
  /\ (returned # Undefined /\ returned[1].resp.status = "ok")
       => NoDuplicates(returned[1].redFlags)

\* C21 -- the confidence of a final assessment is the fixed value 0.95
\* whenever its category differs from the category of the LLM candidate,
\* and is the confidence of the candidate otherwise (0.7 in performTriage
\* when the candidate has none): for ATSTriageEngine.assess and for
\* performTriage.
C21_ConfidenceOnEscalation ==
  /\ assessment # Undefined =>
       LET a == assessment[1]
       IN a.result.confidence
            = (IF a.result.category # a.candidate THEN 95
               ELSE a.candidateConfidence)
  /\ (/\ returned # Undefined
      /\ Finalized(returned[1])
      /\ returned[1].candidate # Undefined) =>
       LET c == returned[1]
           result == c.resp.triageResult[1]
       IN result.confidence
            = (IF result.atsCategory # c.candidate[1] THEN 95
               ELSE IF c.candidateConfidence = 0 THEN 70
               ELSE c.candidateConfidence)

\* C22 -- whenever an assessment was escalated (its final category differs
\* from the candidate's), the escalationReason of the safety envelope is
\* present and lists all detected red flags together with all clinical
\* alerts of severity critical.
C22_EscalationReasonPresent ==
  (assessment # Undefined
     /\ assessment[1].result.category # assessment[1].candidate) =>
    LET a == assessment[1]
    IN /\ a.safetyResult.wasEscalated
       /\ a.safetyResult.escalationReason # Undefined
       /\ a.safetyResult.escalationReason[1]
            = EscalationReason(FlagNames(a.result.redFlagsDetected),
                               CriticalAlerts(a.clinicalAlerts))

\* the audit trail has an entry tagged with the layer
HasLayer(auditTrail, layer) ==
  \E i \in 1..Len(auditTrail) : auditTrail[i].layer = layer

\* the audit trail attached to a result; a TriageSession result has no such
\* field
AuditTrailOf(result) ==
  IF "auditTrail" \in DOMAIN result THEN result.auditTrail ELSE <<>>

\* C23 -- audit completeness: the audit trail of every final assessment
\* has an entry tagged safety, and that of an escalated assessment also an
\* entry tagged keyword or clinical: for the assessments of
\* ATSTriageEngine.assess and for those ConversationEngine stores, on the
\* red-flag path and on the conversational path.
C23_AuditCompleteness ==
  /\ assessment # Undefined =>
       LET a == assessment[1]
       IN /\ HasLayer(AuditTrailOf(a.result), "safety")
          /\ a.result.category # a.candidate =>
               \/ HasLayer(AuditTrailOf(a.result), "keyword")
               \/ HasLayer(AuditTrailOf(a.result), "clinical")
  /\ \A id \in 1..Len(conversations) :
       conversations[id].triageResult # Undefined =>
         HasLayer(AuditTrailOf(conversations[id].triageResult[1]), "safety")

\* C24 -- the audit trail of an assessment has an entry tagged with each
\* layer that executed: assess runs the keyword detection, the clinical
\* rules, the LLM call and the safety envelope on every call, so its audit
\* trail has entries tagged keyword, clinical, llm and safety.
C24_AuditEntryPerLayer ==
  assessment # Undefined =>
    \A layer \in {"keyword", "clinical", "llm", "safety"} :
      HasLayer(assessment[1].result.auditTrail, layer)

\* the step is (part of) an operation on conversation b: a processMessage
\* call with conversationId b starts, resumes or returns, or a
\* startConversation call creates b or resumes
OperationOn(b) ==
  \/ Len(conversations) < b
  \/ \E s \in 1..Len(starting) :
       /\ starting[s].id = b
       /\ s > Len(starting') \/ starting'[s] # starting[s]
  \/ Len(frames') = Len(frames) + 1 /\ frames'[Len(frames')].id = b
  \/ \E k \in 1..Len(frames) : frames[k].id = b /\ StepOf(k)

\* the step creates conversation a or changes it in the store
Changed(a) ==
  IF a <= Len(conversations) THEN conversations'[a] # conversations[a]
  ELSE a <= Len(conversations')

\* the step neither puts conversation b into the store nor deletes it
Kept(b) == InStore(b) <=> InStore(b)'

\* C25 -- an operation on conversation A never changes the messages, the
\* stage, the collectedData or the final assessment of another conversation
\* B, under any interleaving of the calls on A and B: a step that changes
\* a stored conversation belongs to an operation on that conversation,
\* leaves every other conversation as it is and leaves it in the store.
\* (cleanup, which is no operation on a conversation, deletes conversations
\* and changes none.)
C25_ConversationsAreIsolated ==
  [][\A a \in IsolatedIds : \A b \in IsolatedIds :
       (a # b /\ b <= Len(conversations) /\ Changed(a))
       => /\ conversations'[b] = conversations[b]
          /\ Kept(b)
          /\ OperationOn(a)]_vars

\* conversation 1 was finalized by a call that returned while a call on
\* conversation 2 awaits the LLM; conversation 2 has its user message and
\* its own stage
C25_Witness ==
  /\ Len(conversations) = 2
  /\ returned # Undefined
  /\ returned[1].id = 1
  /\ Finalized(returned[1])
  /\ returned[1].llmCalls = 2
  /\ conversations[1].stage = "complete"
  /\ Len(frames) = 1
  /\ frames[1].id = 2
  /\ conversations[2].stage = "collecting"
  /\ conversations[2].triageResult = Undefined
  /\ CountUser(conversations[2].messages) = 1

\* the messages of the exceptions of the model, the one with the body of
\* the provider's error response among them
ExceptionMessages ==
  {"Conversation not found", LLM_API_ERROR, FETCH_FAILED, TypeErrorMessage,
   GroqError, SyntaxErrorMessage, TypeErrorOfUndefined}
    \cup {ConversationNotFound(id) : id \in ConvIds}

\* C26 -- no response to a failed request contains internal error text:
\* the body errorHandler sends for a rejected processMessage call, with
\* NODE_ENV production or not, and the body the serverless handler sends
\* with an error status carry no exception message and no provider error
\* body.
C26_NoInternalErrorText ==
  /\ (returned # Undefined /\ returned[1].resp.status = "error") =>
       \A production \in BOOLEAN :
         errorHandler(returned[1].resp, production).message
           \notin ExceptionMessages
  /\ (handled # Undefined /\ handled[1].status >= 400) =>
       handled[1].details \notin ExceptionMessages

\* C27 -- startConversation creates a conversation, which create() makes
\* with stage greeting and no messages, appends exactly one assistant
\* message, the fixed greeting, and leaves the stage at collecting: when it
\* returns, the conversation holds the greeting alone, its stage is
\* collecting and it has no result; the response carries the greeting and
\* reports stage collecting and isComplete = false.  The call is rejected
\* by the store only when cleanup has deleted the new conversation while
\* the call was in progress.
C27_StartConversation ==
  [][/\ Len(conversations') # Len(conversations) =>
          LET id == Len(conversations')
          IN /\ id = Len(conversations) + 1
             /\ conversations'[id].stage = "greeting"
             /\ conversations'[id].messages = <<>>
             /\ conversations'[id].triageResult = Undefined
             /\ started' = Undefined
     /\ (started' # Undefined /\ started'[1].resp.status = "error") =>
          LET id == started'[1].conversationId
          IN /\ ~InStore(id)
             /\ started'[1].resp = Thrown(ConversationNotFound(id))
             /\ conversations' = conversations
     /\ (started' # Undefined /\ started'[1].resp.status # "error") =>
          LET id == started'[1].conversationId
          IN /\ id <= Len(conversations)
             /\ conversations' = conversations
             /\ conversations[id].messages
                  = <<[role |-> "assistant", content |-> GREETING_MESSAGE]>>
             /\ conversations[id].stage = "collecting"
             /\ conversations[id].triageResult = Undefined
             /\ started'[1].resp.message = GREETING_MESSAGE
             /\ started'[1].resp.stage = "collecting"
             /\ ~started'[1].resp.isComplete
             /\ started'[1].resp.triageResult = Undefined]_vars

\* startConversation has just returned: the conversation of its response
\* holds the greeting alone and is in stage collecting
C27_Witness ==
  /\ started # Undefined
  /\ started[1].resp.stage = "collecting"
  /\ ~started[1].resp.isComplete
  /\ Len(conversations) = started[1].conversationId
  /\ conversations[started[1].conversationId].stage = "collecting"
  /\ conversations[started[1].conversationId].messages
       = <<[role |-> "assistant", content |-> GREETING_MESSAGE]>>

\* C28 -- checkRedFlags(text, age) returns a red flag exactly when the age
\* condition of the flag (if it has one) holds and at least one of its
\* keywords occurs in the lower-cased text, and returns the empty list when
\* no keyword occurs: 'I have chest pain' yields cardiac_chest_pain only,
\* 'I have a mild headache' yields no flag.  The text is the raw input of
\* assess and the result its redFlagsDetected.
C28_RedFlagExactlyWhenKeyword ==
  assessment # Undefined =>
    LET p == assessment[1].presentation
        flags == FlagNames(assessment[1].result.redFlagsDetected)
    IN /\ \A k \in 1..Len(RED_FLAG_INDICATORS) :
            MatchesFlag(buildRawInput(p), p.age, k)
              <=> \E i \in 1..Len(flags) : flags[i] = RED_FLAG_INDICATORS[k].id
       /\ buildRawInput(p) = TextChestPain => flags = <<"cardiac_chest_pain">>
       /\ buildRawInput(p) = TextHeadache => flags = <<>>

\* 'CHEST PAIN and fever' for a child of 2: the flag of the chest pain and
\* the age-gated flag of the fever are returned
C28_Witness ==
  /\ assessment # Undefined
  /\ buildRawInput(assessment[1].presentation) = TextFever
  /\ assessment[1].presentation.age = 2
  /\ FlagNames(assessment[1].result.redFlagsDetected)
       = <<"cardiac_chest_pain", "paediatric_fever">>

\* the categories of the rows of the handler's patterns table that match
\* the text
HandlerFloors(text) ==
  {handlerPatterns[k].ats :
     k \in {j \in 1..Len(handlerPatterns) :
              RegexTest(handlerPatterns[j].pattern, toLowerCase(text))}}

\* C29 -- in the serverless handler, when the user message matches red
\* flags whose most urgent category is w, the response is complete and
\* carries a triage result whose category is w or more urgent, also when
\* the LLM sets readyToTriage itself and supplies its own triageResult.
\* Stated for the requests the handler answers with status 200.
C29_HandlerKeepsRedFlagFloor ==
  [][(/\ handled' # Undefined
      /\ handled'[1].status = 200)
       => LET floors == HandlerFloors(handled'[1].request)
          IN floors # {} =>
               /\ handled'[1].isComplete
               /\ handled'[1].triageResult # Undefined
               /\ handled'[1].triageResult[1].atsCategory
                    \in 1..MathMin(floors)]_vars

\* the position of an urgency in UrgencyLevel (1: the most urgent)
UrgencyRank(urgency) ==
  CHOOSE i \in 1..Len(UrgencyLevel) : UrgencyLevel[i] = urgency

\* C30 -- in TriageEngine.assess the keyword safety net never makes the
\* result less urgent than the result of the LLM: the urgency returned is
\* at least as urgent as the one the LLM returned (EMERGENCY stays
\* EMERGENCY) and the severity returned is not lower than the LLM's.
C30_SafetyNetNeverDowngrades ==
  (triaged # Undefined /\ triaged[1].result # Undefined) =>
    /\ UrgencyRank(triaged[1].result[1].urgency)
         <= UrgencyRank(triaged[1].llm.urgency)
    /\ triaged[1].result[1].severity >= triaged[1].llm.severity

\* the position of a stage in the order of ConversationStage
StageRank(stage) ==
  CASE stage = "greeting" -> 1
    [] stage = "collecting" -> 2
    [] stage = "clarifying" -> 3
    [] stage = "triaging" -> 4
    [] stage = "complete" -> 5

\* C31 -- the stage of a conversation only moves forward in the order
\* greeting, collecting, clarifying, triaging, complete: no step moves it
\* to an earlier stage.
C31_StageOnlyMovesForward ==
  [][\A id \in 1..Len(conversations) :
       StageRank(conversations'[id].stage)
         >= StageRank(conversations[id].stage)]_vars

\* no call of processMessage on the conversation is in progress
NoCallInProgress(id) ==
  \A k \in 1..Len(frames) : frames[k].id # id

\* C32 -- triaging is a transient stage: every conversation that enters
\* triaging eventually reaches complete, and whenever no call of
\* processMessage is in progress on a conversation its stage is not
\* triaging; for the conversations the store holds.
C32_TriagingIsTransient ==
  /\ [](\A id \in 1..Len(conversations) :
          (InStore(id) /\ NoCallInProgress(id))
            => conversations[id].stage # "triaging")
  /\ \A id \in ConvIds :
       (InStore(id) /\ conversations[id].stage = "triaging")
         ~> (~InStore(id) \/ conversations[id].stage = "complete")

\* the call of processMessage that returned last found its conversation,
\* stored its user message and was rejected with an error
FailedCall ==
  /\ returned # Undefined
  /\ returned[1].resp.status = "error"
  /\ returned[1].turn > 0

\* C33 -- when a call of processMessage fails with an error, the
\* conversation is as it was before the call: the user message of the failed
\* turn is not among its messages (it has the turn - 1 user messages it had
\* before), its stage is the stage the call found and it has no final
\* assessment.
C33_FailedCallChangesNothing ==
  FailedCall =>
    /\ CountUser(conversations[returned[1].id].messages) = returned[1].turn - 1
    /\ conversations[returned[1].id].stage = returned[1].stageBefore
    /\ conversations[returned[1].id].triageResult = Undefined

\* C34 -- a conversation has a stored triageResult exactly when its stage
\* is complete, in every reachable state of the store.
C34_ResultIffComplete ==
  \A id \in 1..Len(conversations) :
    InStore(id) =>
      ((conversations[id].triageResult # Undefined)
         <=> (conversations[id].stage = "complete"))

\* the requests of a log that were allowed
AllowedOf(log) == SelectSeq(log, LAMBDA entry : entry.allowed)

\* the time of the first request of the window that the k-th allowed
\* request of a log is in: the first allowed request of a key opens a
\* window, and so does each one made after the reset time (start +
\* windowMs) of the window before it
RECURSIVE WindowStart(_, _, _)
WindowStart(allowedLog, k, windowMs) ==
  IF k = 1 THEN allowedLog[1].at
  ELSE LET start == WindowStart(allowedLog, k - 1, windowMs)
       IN IF allowedLog[k].at > start + windowMs
            THEN allowedLog[k].at ELSE start

\* the requests allowed in the window open at the end of the log
AllowedInWindow(allowedLog, windowMs) ==
  LET start == WindowStart(allowedLog, Len(allowedLog), windowMs)
  IN Cardinality({k \in 1..Len(allowedLog) :
                    WindowStart(allowedLog, k, windowMs) = start})

\* the type of an identifier of the model
TypeOf(identifier) ==
  CHOOSE type \in RequestTypes :
    \E ip \in ClientIPs : identifier = Identifier(ip, type)

\* C35 -- with the in-memory rate limiter, for every key: at most limit
\* requests are allowed within one window of windowMs counted from the first
\* request of the window; a further request before the reset time of the
\* window is rejected with status 429; and a request after the reset time
\* (or the first request of the key) is allowed.
C35_InMemoryRateLimit ==
  [][\A identifier \in Identifiers :
       requestLog'[identifier] # requestLog[identifier] =>
         LET config == limits[TypeOf(identifier)]
             before == AllowedOf(requestLog[identifier])
             after == AllowedOf(requestLog'[identifier])
             resetTime == WindowStart(before, Len(before), config.windowMs)
                            + config.windowMs
         IN /\ after # <<>> =>
                 AllowedInWindow(after, config.windowMs) <= config.limit
            /\ (/\ before # <<>>
                /\ now < resetTime
                /\ AllowedInWindow(before, config.windowMs) >= config.limit)
                 => /\ ~limited'[1].allowed
                    /\ limited'[1].status = 429
            /\ (before = <<>> \/ now > resetTime) => limited'[1].allowed
    ]_vars

\* a key had its limit of requests allowed in one window, then a request
\* rejected with 429 before the reset time, then a request allowed after it
C35_Witness ==
  /\ limited # Undefined
  /\ limited[1].allowed
  /\ LET log == requestLog[limited[1].identifier]
         config == limits[TypeOf(limited[1].identifier)]
     IN /\ Len(AllowedOf(log)) = config.limit + 1
        /\ \E k \in 1..Len(log) : ~log[k].allowed /\ log[k].at < limited[1].at

\* the urgency label of an ATS category
UrgencyOfATS(ats) ==
  CASE ats \in {1, 2} -> "EMERGENCY"
    [] ats = 3 -> "URGENT"
    [] ats = 4 -> "SEMI_URGENT"
    [] ats = 5 -> "NON_URGENT"
    [] OTHER -> "none"

\* severity and urgency of a triage result are derived from its category
DerivedFromCategory(result) ==
  /\ result.severity = 6 - result.atsCategory
  /\ result.urgency = UrgencyOfATS(result.atsCategory)

\* C36 -- every triage result returned to a caller has severity = 6 -
\* atsCategory and the urgency of the fixed mapping of its category,
\* whatever the LLM supplied for them: the results of processMessage
\* (handleEmergencyTriage, performTriage) and those of the serverless
\* handler.
C36_SeverityAndUrgencyDerived ==
  /\ (returned # Undefined /\ returned[1].resp.triageResult # Undefined)
       => DerivedFromCategory(returned[1].resp.triageResult[1])
  /\ (handled # Undefined /\ handled[1].triageResult # Undefined)
       => DerivedFromCategory(handled[1].triageResult[1])

\* C37 -- the user-turn count that processMessage uses for forced
\* progression and for collecting/clarifying equals the number of user
\* messages of the conversation including the current one (1 on the first
\* turn, n on the n-th): for the calls that await the LLM and for the call
\* that returned last after calling it.
C37_UserTurnCount ==
  /\ \A k \in 1..Len(frames) :
       frames[k].llmCalls >= 1 =>
         /\ frames[k].userMessageCount = frames[k].turn
         /\ frames[k].userMessageCount
              = CountUser(conversations[frames[k].id].messages)
  /\ (returned # Undefined /\ returned[1].llmCalls >= 1)
       => returned[1].userMessageCount = returned[1].turn

====
